---- MODULE Spec2Model ----
(***************************************************************************)
(* A model of renpy_parser_rs: the logical-line scanner                    *)
(* (list_logical_lines), the indentation grouper (group_logical_lines),    *)
(* the token cursor (Lexer) and the statement parser (parse_statement,     *)
(* parse_block).  Texts are sequences of one-character strings; positions  *)
(* are 0-based as in the source, so the character at position p of a text  *)
(* t is t[p + 1].                                                          *)
(***************************************************************************)
EXTENDS Integers, Sequences, FiniteSets, TLC

(* ------------------------------ bounds -------------------------------- *)

\* longest source text handed to the scanner
MaxLen == 4
\* most logical lines handed to the grouper
MaxLines == 4
\* deepest indentation of a line handed to the grouper
MaxDepth == 2

\* blocks at the top level of a parsed script
MaxBlocks == 3
\* longest line handed to a cursor that is driven call by call
MaxText == 4
\* longest list handed to inject_node
MaxNodes == 3

(* ---------------------------- characters ------------------------------ *)

TAB == "\t"
NL == "\n"
BS == "\\"
DQ == "\""
SP == " "
\* the backquote, which a TLA+ string cannot hold
BQ == "backquote"

\* the characters the scanned sources are built from
ScanAlphabet == {TAB, NL, BS, "(", ")", "#", DQ, "a", SP}

\* \s of the regex crate, restricted to the characters of the model
Whitespace == {SP, NL, TAB, "\r"}

OpenBrackets == {"(", "[", "{"}
CloseBrackets == {")", "]", "}"}
Quotes == {DQ, "'", BQ}

FileName == "script.rpy"

\* Option<T>: <<>> is None, <<v>> is Some(v)
None == <<>>
Some(v) == <<v>>

\* all sequences over S of length n
SeqsOfLen(S, n) == [1..n -> S]

(* ------------------------------ state --------------------------------- *)

VARIABLES
    \* list_logical_lines
    source,        \* the file's text as read
    data,          \* the text scanned: line endings replaced, "\n\n" appended
    pos,           \* index of the next character of data
    number,        \* current physical line
    start_number,  \* physical line the current logical line started on
    line,          \* text of the logical line being built
    parendepth,    \* open brackets of the current logical line
    delim,         \* delimiter of the string being copied
    escape,        \* one-shot escape flag of the string loop
    rv,            \* logical lines returned so far
    scan_pc,       \* position in list_logical_lines
    scan_result,   \* Ok / Err of list_logical_lines
    ended,         \* history: positions of the newlines that ended a logical line
    \* group_logical_lines
    lines,         \* the logical lines handed to the grouper
    gll_i,         \* i: index (0-based) of the next line, shared by the gll_core calls
    frames,        \* the active gll_core calls, outermost first
    group_pc,      \* position in group_logical_lines
    group_result,  \* Ok / Err of group_logical_lines
    blocks,        \* the block tree returned
    \* parse_block
    tree,          \* the blocks handed to the parser
    lexer,         \* l: the cursor over them
    parse_rv,      \* rv: the statements parsed so far
    parse_errors,  \* the errors collected so far
    parse_pc,      \* position in parse_block
    \* a cursor driven call by call
    lex_state,     \* state: the LexerState checkpoint() returned, if any
    lex_call,      \* history: the last call on the cursor, from where, and what it returned
    \* parse, format, parse again
    first_ast,     \* the statements of the first parse, once they are formatted
    \* inject_node
    inject_ast,    \* ast: the list handed to inject_node, then the list it returned
    injected,      \* history: the node handed to the last call of inject_node
    inject_pc      \* whether inject_node was called, and returned or panicked

scanVars == <<source, data, pos, number, start_number, line, parendepth,
              delim, escape, rv, scan_pc, scan_result, ended>>

groupVars == <<lines, gll_i, frames, group_pc, group_result, blocks>>

parseVars == <<tree, lexer, parse_rv, parse_errors, parse_pc>>

lexVars == <<lex_state, lex_call>>

roundVars == <<first_ast>>

injectVars == <<inject_ast, injected, inject_pc>>

vars == <<scanVars, groupVars, parseVars, lexVars, roundVars, injectVars>>

(* ------------------------- ParseError values -------------------------- *)

TabMessage == <<"Tab characters are not allowed in Ren'Py scripts">>
UnterminatedMessage == <<"is not terminated with a newline (check quotes and parenthesis)">>
MismatchMessage == <<"indentation mismatch">>

ParseError(filename, line_number, message, err_line, err_pos) ==
    [filename |-> filename, line_number |-> line_number, message |-> message,
     line |-> err_line, pos |-> err_pos]

NoError == ParseError("", 0, <<>>, None, None)

Pending == [kind |-> "pending", err |-> NoError]
Ok == [kind |-> "ok", err |-> NoError]
Err(e) == [kind |-> "err", err |-> e]

(* ------------------------ list_logical_lines -------------------------- *)

LogicalLine(filename, line_number, text) ==
    [filename |-> filename, line_number |-> line_number, text |-> text]

\* data.replace("\r\n", "\n")
RECURSIVE ReplaceCrLf(_)
ReplaceCrLf(s) ==
    IF Len(s) = 0 THEN s
    ELSE IF Len(s) >= 2 /\ s[1] = "\r" /\ s[2] = NL
         THEN <<NL>> \o ReplaceCrLf(SubSeq(s, 3, Len(s)))
         ELSE <<s[1]>> \o ReplaceCrLf(Tail(s))

\* the buffer the scanner walks: line endings replaced, two newlines appended
Prepare(s) == ReplaceCrLf(s) \o <<NL, NL>>

\* Regex ^\s*$ on the accumulated line
IsBlank(s) == \A k \in 1..Len(s) : s[k] \in Whitespace

\* the character under the cursor
Cur == data[pos + 1]

\* first position >= p holding a newline, or the end of data (the comment loop)
RECURSIVE SkipComment(_, _)
SkipComment(d, p) ==
    IF p < Len(d) /\ d[p + 1] # NL THEN SkipComment(d, p + 1) ELSE p

\* mutant of CloseDepth: the closer lowers the depth without the guard
CloseDepthUnguarded(depth) == depth - 1

\* '}' | ']' | ')' if parendepth > 0 => parendepth -= 1
CloseDepth(depth) == IF depth > 0 THEN depth - 1 ELSE depth

\* the push of a finished logical line, skipped for blank lines
PushLine(out, l, start) ==
    IF IsBlank(l) THEN out ELSE Append(out, LogicalLine(FileName, start, l))

ScanInit ==
    /\ \E n \in 0..MaxLen : source \in SeqsOfLen(ScanAlphabet, n)
    /\ data = Prepare(source)
    /\ pos = 0
    /\ number = 1
    /\ start_number = 1
    /\ line = <<>>
    /\ parendepth = 0
    /\ delim = DQ
    /\ escape = FALSE
    /\ rv = <<>>
    /\ scan_pc = "outer"
    /\ scan_result = Pending
    /\ ended = {}

\* the scanner before it is started, for the specifications of the other passes
ScanIdle ==
    /\ source = <<>>
    /\ data = <<>>
    /\ pos = 0
    /\ number = 1
    /\ start_number = 1
    /\ line = <<>>
    /\ parendepth = 0
    /\ delim = DQ
    /\ escape = FALSE
    /\ rv = <<>>
    /\ scan_pc = "idle"
    /\ scan_result = Pending
    /\ ended = {}

\* head of the outer loop: a new logical line starts
BeginLine ==
    /\ scan_pc = "outer"
    /\ pos < Len(data)
    /\ start_number' = number
    /\ line' = <<>>
    /\ parendepth' = 0
    /\ scan_pc' = "inner"
    /\ UNCHANGED <<source, data, pos, number, delim, escape, rv, scan_result, ended>>
    /\ UNCHANGED <<groupVars, parseVars, lexVars, roundVars, injectVars>>

\* the outer loop ends: Ok(rv)
ScanFinish ==
    /\ scan_pc = "outer"
    /\ pos >= Len(data)
    /\ scan_pc' = "done"
    /\ scan_result' = Ok
    /\ UNCHANGED <<source, data, pos, number, start_number, line, parendepth,
                   delim, escape, rv, ended>>
    /\ UNCHANGED <<groupVars, parseVars, lexVars, roundVars, injectVars>>

\* c == '\t': the scan fails
TabError ==
    /\ scan_pc = "inner"
    /\ pos < Len(data)
    /\ Cur = TAB
    /\ scan_result' = Err(ParseError(FileName, number, TabMessage, Some(line), Some(pos)))
    /\ scan_pc' = "done"
    /\ UNCHANGED <<source, data, pos, number, start_number, line, parendepth,
                   delim, escape, rv, ended>>
    /\ UNCHANGED <<groupVars, parseVars, lexVars, roundVars, injectVars>>

\* c == '\n' && parendepth == 0: the logical line ends
EndOfLine ==
    /\ scan_pc = "inner"
    /\ pos < Len(data)
    /\ Cur = NL
    /\ parendepth = 0
    /\ number' = number + 1
    /\ rv' = PushLine(rv, line, start_number)
    /\ pos' = pos + 1
    /\ ended' = ended \cup {pos}
    /\ scan_pc' = "check"
    /\ UNCHANGED <<source, data, start_number, line, parendepth, delim, escape,
                   scan_result>>
    /\ UNCHANGED <<groupVars, parseVars, lexVars, roundVars, injectVars>>

\* c == '\n' inside brackets: counted and appended as data
NewlineInBrackets ==
    /\ scan_pc = "inner"
    /\ pos < Len(data)
    /\ Cur = NL
    /\ parendepth # 0
    /\ number' = number + 1
    /\ line' = Append(line, NL)
    /\ pos' = pos + 1
    /\ UNCHANGED <<source, data, start_number, parendepth, delim, escape, rv,
                   scan_pc, scan_result, ended>>
    /\ UNCHANGED <<groupVars, parseVars, lexVars, roundVars, injectVars>>

\* backslash followed by newline
BackslashNewline ==
    /\ scan_pc = "inner"
    /\ pos < Len(data)
    /\ Cur = BS
    /\ pos + 1 < Len(data)
    /\ data[pos + 2] = NL
    /\ pos' = pos + 2
    /\ number' = number + 1
    /\ line' = Append(line, NL)
    /\ UNCHANGED <<source, data, start_number, parendepth, delim, escape, rv,
                   scan_pc, scan_result, ended>>
    /\ UNCHANGED <<groupVars, parseVars, lexVars, roundVars, injectVars>>

IsBackslashNewline == Cur = BS /\ pos + 1 < Len(data) /\ data[pos + 2] = NL

\* '(' | '[' | '{'
OpenBracket ==
    /\ scan_pc = "inner"
    /\ pos < Len(data)
    /\ Cur \in OpenBrackets
    /\ parendepth' = parendepth + 1
    /\ line' = Append(line, Cur)
    /\ pos' = pos + 1
    /\ UNCHANGED <<source, data, number, start_number, delim, escape, rv,
                   scan_pc, scan_result, ended>>
    /\ UNCHANGED <<groupVars, parseVars, lexVars, roundVars, injectVars>>

\* '}' | ']' | ')'
CloseBracket ==
    /\ scan_pc = "inner"
    /\ pos < Len(data)
    /\ Cur \in CloseBrackets
    /\ parendepth' = CloseDepth(parendepth)
    /\ line' = Append(line, Cur)
    /\ pos' = pos + 1
    /\ UNCHANGED <<source, data, number, start_number, delim, escape, rv,
                   scan_pc, scan_result, ended>>
    /\ UNCHANGED <<groupVars, parseVars, lexVars, roundVars, injectVars>>

\* '#': the comment is skipped up to the next newline
Comment ==
    /\ scan_pc = "inner"
    /\ pos < Len(data)
    /\ Cur = "#"
    /\ pos' = SkipComment(data, pos)
    /\ UNCHANGED <<source, data, number, start_number, line, parendepth, delim,
                   escape, rv, scan_pc, scan_result, ended>>
    /\ UNCHANGED <<groupVars, parseVars, lexVars, roundVars, injectVars>>

\* an opening quote: the string loop starts
StringOpen ==
    /\ scan_pc = "inner"
    /\ pos < Len(data)
    /\ Cur \in Quotes
    /\ delim' = Cur
    /\ line' = Append(line, Cur)
    /\ pos' = pos + 1
    /\ escape' = FALSE
    /\ scan_pc' = "string"
    /\ UNCHANGED <<source, data, number, start_number, parendepth, rv,
                   scan_result, ended>>
    /\ UNCHANGED <<groupVars, parseVars, lexVars, roundVars, injectVars>>

\* any other character is copied
PlainChar ==
    /\ scan_pc = "inner"
    /\ pos < Len(data)
    /\ Cur \notin {TAB, NL, "#"} \cup OpenBrackets \cup CloseBrackets \cup Quotes
    /\ ~IsBackslashNewline
    /\ line' = Append(line, Cur)
    /\ pos' = pos + 1
    /\ UNCHANGED <<source, data, number, start_number, parendepth, delim, escape,
                   rv, scan_pc, scan_result, ended>>
    /\ UNCHANGED <<groupVars, parseVars, lexVars, roundVars, injectVars>>

\* one round of the string loop
StringChar ==
    /\ scan_pc = "string"
    /\ pos < Len(data)
    /\ number' = IF Cur = NL THEN number + 1 ELSE number
    /\ line' = Append(line, Cur)
    /\ pos' = pos + 1
    /\ escape' = (~escape /\ Cur # delim /\ Cur = BS)
    /\ scan_pc' = IF ~escape /\ Cur = delim THEN "inner" ELSE "string"
    /\ UNCHANGED <<source, data, start_number, parendepth, delim, rv,
                   scan_result, ended>>
    /\ UNCHANGED <<groupVars, parseVars, lexVars, roundVars, injectVars>>

\* the input ends inside the string loop
StringRunsOut ==
    /\ scan_pc = "string"
    /\ pos >= Len(data)
    /\ scan_pc' = "inner"
    /\ UNCHANGED <<source, data, pos, number, start_number, line, parendepth,
                   delim, escape, rv, scan_result, ended>>
    /\ UNCHANGED <<groupVars, parseVars, lexVars, roundVars, injectVars>>

\* the input ends inside the inner loop
InnerRunsOut ==
    /\ scan_pc = "inner"
    /\ pos >= Len(data)
    /\ scan_pc' = "check"
    /\ UNCHANGED <<source, data, pos, number, start_number, line, parendepth,
                   delim, escape, rv, scan_result, ended>>
    /\ UNCHANGED <<groupVars, parseVars, lexVars, roundVars, injectVars>>

\* pos >= chars.len() && !line.is_empty()
IsUnterminated(p, d, l) == p >= Len(d) /\ Len(l) # 0

\* after the inner loop: the unterminated-line check fails the scan
Unterminated ==
    /\ scan_pc = "check"
    /\ IsUnterminated(pos, data, line)
    /\ scan_result' = Err(ParseError(FileName, start_number, UnterminatedMessage,
                                     None, Some(pos)))
    /\ scan_pc' = "done"
    /\ UNCHANGED <<source, data, pos, number, start_number, line, parendepth,
                   delim, escape, rv, ended>>
    /\ UNCHANGED <<groupVars, parseVars, lexVars, roundVars, injectVars>>

\* after the inner loop: back to the head of the outer loop
NextLine ==
    /\ scan_pc = "check"
    /\ ~IsUnterminated(pos, data, line)
    /\ scan_pc' = "outer"
    /\ UNCHANGED <<source, data, pos, number, start_number, line, parendepth,
                   delim, escape, rv, scan_result, ended>>
    /\ UNCHANGED <<groupVars, parseVars, lexVars, roundVars, injectVars>>

ScanNext ==
    \/ BeginLine
    \/ ScanFinish
    \/ TabError
    \/ EndOfLine
    \/ NewlineInBrackets
    \/ BackslashNewline
    \/ OpenBracket
    \/ CloseBracket
    \/ Comment
    \/ StringOpen
    \/ PlainChar
    \/ StringChar
    \/ StringRunsOut
    \/ InnerRunsOut
    \/ Unterminated
    \/ NextLine


(* ------------------------ group_logical_lines ------------------------- *)

\* mutant of Block: the sub-blocks returned by the recursive call are dropped
BlockWithoutSubBlocks(filename, line_number, content, sub_blocks) ==
    [filename |-> filename, line_number |-> line_number, content |-> content,
     sub_blocks |-> <<>>]

\* mutant of Block: the block is numbered from 0, like the index of its line
BlockNumberedFromZero(filename, line_number, content, sub_blocks) ==
    [filename |-> filename, line_number |-> line_number - 1, content |-> content,
     sub_blocks |-> sub_blocks]

\* Block { filename, line_number, content: rest, sub_blocks }
Block(filename, line_number, content, sub_blocks) ==
    [filename |-> filename, line_number |-> line_number, content |-> content,
     sub_blocks |-> sub_blocks]

\* number of spaces the text starts with
LeadingSpaces(text) ==
    CHOOSE d \in 0..Len(text) :
        /\ \A k \in 1..d : text[k] = SP
        /\ d = Len(text) \/ text[d + 1] # SP

\* depth_split: the loop counts the leading spaces; chars.next() has already
\* taken the first other character when the loop breaks, so the collected
\* remainder starts one character after it
DepthSplit(text) ==
    <<LeadingSpaces(text), SubSeq(text, LeadingSpaces(text) + 2, Len(text))>>

\* mutant of SetDepth: the sibling depth follows every line
SetDepthAlways(depth, line_depth) == Some(line_depth)

\* if depth.is_none() { depth = Some(line_depth) }
SetDepth(depth, line_depth) == IF depth = None THEN Some(line_depth) ELSE depth


\* depth != Some(line_depth)
IsMismatch(depth, line_depth) == depth # Some(line_depth)

\* mutant of ChildMinDepth: the sub-blocks may start at the line's own depth
ChildMinDepthSame(line_depth) == line_depth

\* the min_depth handed to the recursive call: line_depth + 1
ChildMinDepth(line_depth) == line_depth + 1

NoLine == LogicalLine("", 0, <<>>)

\* one call of gll_core: its parameter min_depth, its locals depth and rv, and,
\* while the recursive call for a line runs, that line and its remainder
Frame(min_depth) ==
    [min_depth |-> min_depth, depth |-> None, rv |-> <<>>, line |-> NoLine,
     rest |-> <<>>]

Top == frames[Len(frames)]
CurLine == lines[gll_i + 1]
LineDepth == DepthSplit(CurLine.text)[1]
LineRest == DepthSplit(CurLine.text)[2]

Spaces(d) == [k \in 1..d |-> SP]

\* the texts after the indentation of the lines handed to the grouper
Bodies == {<<"a">>, <<"a", SP, "b">>}

\* the k-th logical line of an input: the scanner numbers the lines it
\* returns in strictly increasing order and drops blank ones
InputLine(k, d, body) == LogicalLine(FileName, 2 * k - 1, Spaces(d) \o body)

GroupInit ==
    /\ \E n \in 0..MaxLines :
          \E ds \in [1..n -> 0..MaxDepth], bs \in [1..n -> Bodies] :
              lines = [k \in 1..n |-> InputLine(k, ds[k], bs[k])]
    /\ gll_i = 0
    /\ frames = <<Frame(0)>>
    /\ group_pc = "run"
    /\ group_result = Pending
    /\ blocks = <<>>

GroupIdle ==
    /\ lines = <<>>
    /\ gll_i = 0
    /\ frames = <<>>
    /\ group_pc = "idle"
    /\ group_result = Pending
    /\ blocks = <<>>

\* the while loop of the innermost call is over: no line is left, or the
\* next line is shallower than min_depth
LoopOver == IF gll_i >= Len(lines) THEN TRUE ELSE LineDepth < Top.min_depth

\* a line of the sibling depth: i += 1 and gll_core is called for its sub-blocks
GllDescend ==
    /\ group_pc = "run"
    /\ ~LoopOver
    /\ ~IsMismatch(SetDepth(Top.depth, LineDepth), LineDepth)
    /\ gll_i' = gll_i + 1
    /\ frames' = Append(
          [frames EXCEPT ![Len(frames)] =
              [@ EXCEPT !.depth = SetDepth(@, LineDepth),
                        !.line = CurLine,
                        !.rest = LineRest]],
          Frame(ChildMinDepth(LineDepth)))
    /\ UNCHANGED <<lines, group_pc, group_result, blocks>>
    /\ UNCHANGED <<scanVars, parseVars, lexVars, roundVars, injectVars>>

\* a line of another depth than its siblings: the error leaves every call
GllMismatch ==
    /\ group_pc = "run"
    /\ ~LoopOver
    /\ IsMismatch(SetDepth(Top.depth, LineDepth), LineDepth)
    /\ group_result' = Err(ParseError(CurLine.filename, CurLine.line_number,
                                      MismatchMessage, None, None))
    /\ frames' = <<>>
    /\ group_pc' = "done"
    /\ UNCHANGED <<lines, gll_i, blocks>>
    /\ UNCHANGED <<scanVars, parseVars, lexVars, roundVars, injectVars>>

\* a recursive call returns (rv, i): the caller pushes the block of its line
GllReturn ==
    /\ group_pc = "run"
    /\ LoopOver
    /\ Len(frames) > 1
    /\ LET caller == frames[Len(frames) - 1]
           block == Block(caller.line.filename, caller.line.line_number,
                          caller.rest, Top.rv)
       IN  frames' = [SubSeq(frames, 1, Len(frames) - 1)
                         EXCEPT ![Len(frames) - 1] =
                             [@ EXCEPT !.rv = Append(@, block)]]
    /\ UNCHANGED <<lines, gll_i, group_pc, group_result, blocks>>
    /\ UNCHANGED <<scanVars, parseVars, lexVars, roundVars, injectVars>>

\* the root call returns: Ok(blocks)
GroupFinish ==
    /\ group_pc = "run"
    /\ LoopOver
    /\ Len(frames) = 1
    /\ blocks' = Top.rv
    /\ group_result' = Ok
    /\ frames' = <<>>
    /\ group_pc' = "done"
    /\ UNCHANGED <<lines, gll_i>>
    /\ UNCHANGED <<scanVars, parseVars, lexVars, roundVars, injectVars>>

GroupNext ==
    \/ GllDescend
    \/ GllMismatch
    \/ GllReturn
    \/ GroupFinish

(* ------------------------------- Lexer -------------------------------- *)

\* `let v = ..;` followed by the code K that uses v
With(v, K(_)) == K(v)

\* the Block of lexer.rs: one logical line and the blocks indented under it
LexerBlock(filename, line_number, text, subblocks) ==
    [filename |-> filename, line_number |-> line_number, text |-> text,
     subblocks |-> subblocks]

Digits == {"0", "1", "2", "3", "4", "5", "6", "7", "8", "9"}

\* [0-9a-zA-Z_\u00a0-\ufffd], over the ASCII characters of the model
WordStart ==
    Digits \cup {"_"} \cup
           {"a", "b", "c", "d", "e", "f", "g", "h", "i", "j", "k", "l", "m",
            "n", "o", "p", "q", "r", "s", "t", "u", "v", "w", "x", "y", "z",
            "A", "B", "C", "D", "E", "F", "G", "H", "I", "J", "K", "L", "M",
            "N", "O", "P", "Q", "R", "S", "T", "U", "V", "W", "X", "Y", "Z"}

\* [0-9a-zA-Z_\u00a0-\ufffd.-]
WordCont == WordStart \cup {".", "-"}

\* the keywords name() refuses
keywords ==
    {<<"h", "i", "d", "e">>, <<"j", "u", "m", "p">>, <<"r", "e", "t", "u", "r", "n">>, <<"s", "c", "e", "n", "e">>, <<"s", "h", "o", "w">>, <<"p", "l", "a", "y">>,
     <<"d", "e", "f", "i", "n", "e">>, <<"g", "a", "m", "e", "_", "m", "e", "c", "h", "a", "n", "i", "c">>, <<"l", "l", "m", "_", "g", "e", "n", "e", "r", "a", "t", "e">>, <<"s", "c", "e", "n", "e", "_", "g", "e", "n", "e", "r", "a", "t", "e">>,
     <<"m", "u", "s", "i", "c", "_", "g", "e", "n", "e", "r", "a", "t", "e">>}

\* Lexer::new
LexerNew(block, init) ==
    [block |-> block, init |-> init, eob |-> FALSE, line |-> -1, filename |-> "",
     line_number |-> 0, text |-> <<>>, subblock |-> <<>>, pos |-> 0]

\* mutant of advance: the cursor moves on but keeps the line number it had
advance_keeps_line_number(l) ==
    IF l.line + 1 >= Len(l.block)
    THEN [l EXCEPT !.line = l.line + 1, !.eob = TRUE]
    ELSE [l EXCEPT !.line = l.line + 1,
                   !.filename = l.block[l.line + 2].filename,
                   !.text = l.block[l.line + 2].text,
                   !.subblock = l.block[l.line + 2].subblocks,
                   !.pos = 0]

\* advance: the cursor after the call (the returned bool is ~eob)
advance(l) ==
    IF l.line + 1 >= Len(l.block)
    THEN [l EXCEPT !.line = l.line + 1, !.eob = TRUE]
    ELSE [l EXCEPT !.line = l.line + 1,
                   !.filename = l.block[l.line + 2].filename,
                   !.line_number = l.block[l.line + 2].line_number,
                   !.text = l.block[l.line + 2].text,
                   !.subblock = l.block[l.line + 2].subblocks,
                   !.pos = 0]

(* The regular expressions of lexer.rs and parsers.rs.  A pattern is a record;
   MatchEnd(re, s, i) is the end (exclusive, 0-based) of the match of re in s
   that starts at position i, or -1; Regex::find takes the leftmost start. *)

\* ^\s+
WhitespaceRe == [kind |-> "whitespace", anchored |-> TRUE]
\* ^word, a literal pinned to the start by '^'
LiteralRe(w) == [kind |-> "literal", anchored |-> TRUE, lit |-> w]
\* r?"([^\\"]|\\.)*" and the same for ' and `
StringRe(q) == [kind |-> "string", anchored |-> FALSE, quote |-> q]
\* ^[0-9a-zA-Z_\u00a0-\ufffd][0-9a-zA-Z_\u00a0-\ufffd.-]*
WordRe == [kind |-> "word", anchored |-> TRUE]
\* "([0-9a-zA-Z_\u00a0-\ufffd][0-9a-zA-Z_\u00a0-\ufffd]*).+\.(\w)+\"$
AudioFilenameRe == [kind |-> "audio_filename", anchored |-> FALSE]
\* ^[a&&b]|(fadeout \d+\.\d+)$ : the first alternative is an empty class
StopArgumentsRe == [kind |-> "stop_arguments", anchored |-> FALSE]

\* end of the longest run of characters of class S in s starting at i
RECURSIVE RunEnd(_, _, _)
RunEnd(s, i, S) ==
    IF i < Len(s) /\ s[i + 1] \in S THEN RunEnd(s, i + 1, S) ELSE i

\* s holds w at position i
HasAt(s, i, w) ==
    /\ i + Len(w) <= Len(s)
    /\ \A k \in 1..Len(w) : s[i + k] = w[k]

\* ([^\\q]|\\.)*q from position j, just after the opening quote
RECURSIVE StringBodyEnd(_, _, _)
StringBodyEnd(s, j, q) ==
    IF j >= Len(s) THEN -1
    ELSE IF s[j + 1] = q THEN j + 1
    ELSE IF s[j + 1] = BS
         THEN IF j + 1 < Len(s) /\ s[j + 2] # NL
              THEN StringBodyEnd(s, j + 2, q)
              ELSE -1
         ELSE StringBodyEnd(s, j + 1, q)

StringMatchEnd(s, i, q) ==
    IF HasAt(s, i, <<"r", q>>) /\ StringBodyEnd(s, i + 2, q) >= 0
    THEN StringBodyEnd(s, i + 2, q)
    ELSE IF HasAt(s, i, <<q>>) THEN StringBodyEnd(s, i + 1, q)
    ELSE -1

AudioFilenameMatchEnd(s, i) ==
    IF /\ HasAt(s, i, <<DQ>>)
       /\ s[Len(s)] = DQ
       /\ \E a, b, c \in 1..Len(s) :
             /\ i + 1 + a + b + 1 + c + 1 = Len(s)
             /\ \A k \in 1..a : s[i + 1 + k] \in WordStart
             /\ \A k \in 1..b : s[i + 1 + a + k] # NL
             /\ s[i + 1 + a + b + 1] = "."
             /\ \A k \in 1..c : s[i + 1 + a + b + 1 + k] \in WordStart
    THEN Len(s)
    ELSE -1

StopArgumentsMatchEnd(s, i) ==
    With(<<"f", "a", "d", "e", "o", "u", "t", SP>>, LAMBDA fadeout :
    With(RunEnd(s, i + Len(fadeout), Digits), LAMBDA e1 :
    With(RunEnd(s, e1 + 1, Digits), LAMBDA e2 :
        IF /\ HasAt(s, i, fadeout)
           /\ e1 > i + Len(fadeout)
           /\ HasAt(s, e1, <<".">>)
           /\ e2 > e1 + 1
           /\ e2 = Len(s)
        THEN e2
        ELSE -1)))

MatchEnd(re, s, i) ==
    CASE re.kind = "whitespace" ->
            IF RunEnd(s, i, Whitespace) > i THEN RunEnd(s, i, Whitespace) ELSE -1
      [] re.kind = "literal" ->
            IF HasAt(s, i, re.lit) THEN i + Len(re.lit) ELSE -1
      [] re.kind = "string" -> StringMatchEnd(s, i, re.quote)
      [] re.kind = "word" ->
            IF i < Len(s) /\ s[i + 1] \in WordStart
            THEN RunEnd(s, i + 1, WordCont) ELSE -1
      [] re.kind = "audio_filename" -> AudioFilenameMatchEnd(s, i)
      [] re.kind = "stop_arguments" -> StopArgumentsMatchEnd(s, i)

\* re.find(s): the leftmost match; a pattern that begins with '^' can start
\* at 0 only
Find(re, s) ==
    With({i \in (IF re.anchored THEN {0} ELSE 0..(Len(s) - 1)) : MatchEnd(re, s, i) >= 0},
         LAMBDA hits :
            IF hits = {} THEN [found |-> FALSE, start |-> 0, end |-> 0]
            ELSE With(CHOOSE h \in hits : \A j \in hits : h <= j, LAMBDA first :
                     [found |-> TRUE, start |-> first, end |-> MatchEnd(re, s, first)]))

\* a call on the cursor: the cursor after it and the value returned
Ret(l, rv_) == [l |-> l, rv |-> rv_]

\* match_regexp
match_regexp(l, regexp) ==
    IF l.eob THEN Ret(l, None)
    ELSE IF l.pos = Len(l.text) THEN Ret(l, None)
    ELSE With(SubSeq(l.text, l.pos + 1, Len(l.text)), LAMBDA text_to_match :
         With(Find(regexp, text_to_match), LAMBDA m :
             IF m.found
             THEN Ret([l EXCEPT !.pos = l.pos + m.end],
                      Some(SubSeq(text_to_match, m.start + 1, m.end)))
             ELSE Ret(l, None)))

\* skip_whitespace
skip_whitespace(l) == match_regexp(l, WhitespaceRe).l

\* match_
match_(l, regexp) == match_regexp(skip_whitespace(l), regexp)

\* keyword: the pattern is handed to match_ as it is written at the call
keyword(l, regexp) == match_(l, regexp)

\* what anyhow carries: a ParseError, or the bare message of anyhow!(..)
AnyhowParseError(e) == [is_parse_error |-> TRUE, e |-> e]
AnyhowMessage(msg) ==
    [is_parse_error |-> FALSE, e |-> ParseError("", 0, msg, None, None)]
NoAnyhow == AnyhowMessage(<<>>)

\* error: the ParseError at the cursor
error(l, msg) ==
    AnyhowParseError(ParseError(l.filename, l.line_number, msg, Some(l.text), Some(l.pos)))

\* ParseError::to_string of parsers.rs: "On line {} of {}: {}"
to_string(e) ==
    <<"On line ", ToString(e.line_number), " of ", e.filename, ": ">> \o e.message

\* format!("{}", e) of an anyhow error
Display(err) == IF err.is_parse_error THEN to_string(err.e) ELSE err.e.message

\* eol
eol(l) ==
    With(skip_whitespace(l), LAMBDA l1 : Ret(l1, l1.pos >= Len(l1.text)))

\* a Result<()> on the cursor
Fine(l) == [l |-> l, ok |-> TRUE, err |-> NoAnyhow]
Fail(l, err) == [l |-> l, ok |-> FALSE, err |-> err]

\* expect_eol
expect_eol(l) ==
    With(eol(l), LAMBDA at_end :
        IF ~at_end.rv THEN Fail(at_end.l, error(at_end.l, <<"end of line expected">>))
        ELSE Fine(at_end.l))

\* expect_noblock
expect_noblock(l, stmt) ==
    IF Len(l.subblock) # 0
    THEN Fail(l, error(l, stmt \o <<" does not expect a block. Please check the indentation of the line after this one.">>))
    ELSE Fine(l)

\* subblock_lexer
subblock_lexer(l, init) == LexerNew(l.subblock, l.init \/ init)

\* s.replace("\\n", "\n")
RECURSIVE ReplaceBackslashN(_)
ReplaceBackslashN(s) ==
    IF Len(s) = 0 THEN s
    ELSE IF HasAt(s, 0, <<BS, "n">>)
         THEN <<NL>> \o ReplaceBackslashN(SubSeq(s, 3, Len(s)))
         ELSE <<s[1]>> \o ReplaceBackslashN(Tail(s))

\* the hexadecimal digits by value
HexChars ==
    <<{"0"}, {"1"}, {"2"}, {"3"}, {"4"}, {"5"}, {"6"}, {"7"}, {"8"}, {"9"},
      {"a", "A"}, {"b", "B"}, {"c", "C"}, {"d", "D"}, {"e", "E"}, {"f", "F"}>>

\* the end of the [0-9a-fA-F]{1,4} that starts at position i
RECURSIVE HexEnd(_, _, _)
HexEnd(s, i, n) ==
    IF n < 4 /\ i + n < Len(s) /\ (\E v \in 1..16 : s[i + n + 1] \in HexChars[v])
    THEN HexEnd(s, i, n + 1) ELSE i + n

\* u8::from_str_radix(hex, 16) of the digits s[i+1..j]
RECURSIVE HexValue(_, _, _)
HexValue(s, i, j) ==
    IF j <= i THEN 0
    ELSE 16 * HexValue(s, i, j - 1) + (CHOOSE v \in 0..15 : s[j] \in HexChars[v + 1])

\* String::from_utf8(vec![byte]): the one-byte strings are the ASCII
\* characters; a byte above 0x7f has no value here (the source panics on it)
ByteChar ==
    <<"x00", "x01", "x02", "x03", "x04", "x05", "x06", "x07",
      "x08", TAB, NL, "x0b", "x0c", "x0d", "x0e", "x0f",
      "x10", "x11", "x12", "x13", "x14", "x15", "x16", "x17",
      "x18", "x19", "x1a", "x1b", "x1c", "x1d", "x1e", "x1f",
      SP, "!", DQ, "#", "$", "%", "&", "'",
      "(", ")", "*", "+", ",", "-", ".", "/",
      "0", "1", "2", "3", "4", "5", "6", "7",
      "8", "9", ":", ";", "<", "=", ">", "?",
      "@", "A", "B", "C", "D", "E", "F", "G",
      "H", "I", "J", "K", "L", "M", "N", "O",
      "P", "Q", "R", "S", "T", "U", "V", "W",
      "X", "Y", "Z", "[", BS, "]", "^", "_",
      BQ, "a", "b", "c", "d", "e", "f", "g",
      "h", "i", "j", "k", "l", "m", "n", "o",
      "p", "q", "r", "s", "t", "u", "v", "w",
      "x", "y", "z", "{", "|", "}", "~", "x7f">>

\* \\u([0-9a-fA-F]{1,4}) replaced by the character of that byte value
RECURSIVE DecodeUnicode(_)
DecodeUnicode(s) ==
    IF Len(s) = 0 THEN s
    ELSE IF HasAt(s, 0, <<BS, "u">>) /\ HexEnd(s, 2, 0) > 2
         THEN <<ByteChar[HexValue(s, 2, HexEnd(s, 2, 0)) + 1]>>
                  \o DecodeUnicode(SubSeq(s, HexEnd(s, 2, 0) + 1, Len(s)))
         ELSE <<s[1]>> \o DecodeUnicode(Tail(s))

\* \\. replaced by the character after the backslash ('.' is no newline)
RECURSIVE DropBackslashes(_)
DropBackslashes(s) ==
    IF Len(s) = 0 THEN s
    ELSE IF s[1] = BS /\ Len(s) >= 2 /\ s[2] # NL
         THEN <<s[2]>> \o DropBackslashes(SubSeq(s, 3, Len(s)))
         ELSE <<s[1]>> \o DropBackslashes(Tail(s))

\* \s+ replaced by one space
RECURSIVE CollapseWhitespace(_)
CollapseWhitespace(s) ==
    IF Len(s) = 0 THEN s
    ELSE IF s[1] \in Whitespace
         THEN <<SP>> \o CollapseWhitespace(SubSeq(s, RunEnd(s, 0, Whitespace) + 1, Len(s)))
         ELSE <<s[1]>> \o CollapseWhitespace(Tail(s))

\* the body of string() after a match: s[1..s.len() - 1], then the r test
StringValue(s) ==
    With(SubSeq(s, 2, Len(s) - 1), LAMBDA inner :
        IF Len(inner) > 0 /\ inner[1] = "r"
        THEN Tail(inner)
        ELSE CollapseWhitespace(DropBackslashes(DecodeUnicode(ReplaceBackslashN(inner)))))

\* string: the three patterns in turn, each through match_
string(l) ==
    With(match_(l, StringRe(DQ)), LAMBDA m1 :
        IF m1.rv # None THEN Ret(m1.l, Some(StringValue(m1.rv[1])))
        ELSE With(match_(m1.l, StringRe("'")), LAMBDA m2 :
            IF m2.rv # None THEN Ret(m2.l, Some(StringValue(m2.rv[1])))
            ELSE With(match_(m2.l, StringRe(BQ)), LAMBDA m3 :
                IF m3.rv # None THEN Ret(m3.l, Some(StringValue(m3.rv[1])))
                ELSE Ret(m3.l, None))))

\* word
word(l) == match_(l, WordRe)

\* audio_filename
audio_filename(l) == match_(l, AudioFilenameRe)

\* the index of the first c in s at or after position i, or Len(s)
RECURSIVE IndexOf(_, _, _)
IndexOf(s, i, c) ==
    IF i < Len(s) /\ s[i + 1] # c THEN IndexOf(s, i + 1, c) ELSE i

\* digits without leading zeros
RECURSIVE StripLeadingZeros(_)
StripLeadingZeros(s) ==
    IF Len(s) > 1 /\ s[1] = "0" THEN StripLeadingZeros(Tail(s)) ELSE s

\* digits without trailing zeros
RECURSIVE StripTrailingZeros(_)
StripTrailingZeros(s) ==
    IF Len(s) > 1 /\ s[Len(s)] = "0"
    THEN StripTrailingZeros(SubSeq(s, 1, Len(s) - 1)) ELSE s

\* parse::<f32>() of digits '.' digits: the value, as its shortest numeral
\* (the numerals of the model are short enough to be exact for comparison)
ParseF32(s) ==
    With(IndexOf(s, 0, "."), LAMBDA dot :
        StripLeadingZeros(SubSeq(s, 1, dot)) \o <<".">>
            \o StripTrailingZeros(SubSeq(s, dot + 2, Len(s))))

\* stop_arguments: (effect, length)
stop_arguments(l) ==
    With(match_(l, StopArgumentsRe), LAMBDA m :
        IF m.rv = None THEN Ret(m.l, <<None, None>>)
        ELSE IF m.rv[1] = <<>> THEN Ret(m.l, <<None, None>>)
        ELSE With(IndexOf(m.rv[1], 0, SP), LAMBDA sp :
                 Ret(m.l, <<Some(SubSeq(m.rv[1], 1, sp)),
                            Some(ParseF32(SubSeq(m.rv[1], sp + 2, Len(m.rv[1]))))>>)))

\* name: a word that is no keyword; a keyword puts pos back
name(l) ==
    With(word(l), LAMBDA w :
        IF w.rv = None THEN Ret(w.l, None)
        ELSE IF w.rv[1] \in keywords THEN Ret([w.l EXCEPT !.pos = l.pos], None)
        ELSE w)

\* rest
rest(l) ==
    With(skip_whitespace(l), LAMBDA l1 :
        Ret([l1 EXCEPT !.pos = Len(l1.text)], SubSeq(l1.text, l1.pos + 1, Len(l1.text))))

\* get_location
get_location(l) == l.line_number

\* checkpoint
checkpoint(l) ==
    [filename |-> l.filename, line_number |-> l.line_number, text |-> l.text,
     subblock |-> l.subblock, pos |-> l.pos]

\* mutant of revert: everything is put back but pos
revert_keeps_pos(l, state) ==
    [l EXCEPT !.filename = state.filename, !.line_number = state.line_number,
              !.text = state.text, !.subblock = state.subblock]

\* revert
revert(l, state) ==
    [l EXCEPT !.filename = state.filename, !.line_number = state.line_number,
              !.text = state.text, !.subblock = state.subblock, !.pos = state.pos]

(* ------------------------------ parsers ------------------------------- *)

\* a value of the enum AST: the variant, its loc and its other fields
AST(kind, loc, fields) == [kind |-> kind, loc |-> loc] @@ fields

\* AST::Error, the placeholder where a Result<AST> is an Err
ErrorNode == [kind |-> "Error"]

\* Result<AST> together with the cursor the call leaves behind
StmtOk(l, node) == [l |-> l, ok |-> TRUE, node |-> node, err |-> NoAnyhow]
StmtErr(l, err) == [l |-> l, ok |-> FALSE, node |-> ErrorNode, err |-> err]

\* Option::unwrap_or_default of a text
UnwrapOrDefault(o) == IF o = None THEN <<>> ELSE o[1]

\* str::trim
RECURSIVE TrimEnd(_)
TrimEnd(s) ==
    IF Len(s) > 0 /\ s[Len(s)] \in Whitespace THEN TrimEnd(SubSeq(s, 1, Len(s) - 1)) ELSE s

Trim(s) == TrimEnd(SubSeq(s, RunEnd(s, 0, Whitespace) + 1, Len(s)))

\* [String]::join(" ")
RECURSIVE Join(_)
Join(ss) ==
    IF Len(ss) = 0 THEN <<>>
    ELSE IF Len(ss) = 1 THEN ss[1]
    ELSE ss[1] \o <<SP>> \o Join(Tail(ss))

\* the `?` of a Result: K goes on with an Ok, an Err is returned as it is
Try(res, K(_)) == IF res.ok THEN K(res) ELSE StmtErr(res.l, res.err)

\* the loop of parse_image_name: names are read until name() finds none
RECURSIVE MoreNames(_, _)
MoreNames(l, names) ==
    With(name(l), LAMBDA n :
        IF n.rv = None THEN Ret(n.l, names)
        ELSE MoreNames(n.l, Append(names, Trim(n.rv[1]))))

\* parse_image_name
parse_image_name(l) ==
    With(name(l), LAMBDA n : MoreNames(n.l, <<UnwrapOrDefault(n.rv)>>))

\* parse_image_specifier: the image name of (image_name, expression, layer)
parse_image_specifier(l) ==
    With(parse_image_name(l), LAMBDA image_names :
        Ret(image_names.l, Join(image_names.rv)))

\* parse_with
parse_with(l, node) == <<node>>

\* parse_audio_specifier
parse_audio_specifier(l) ==
    With(name(l), LAMBDA n :
    With(UnwrapOrDefault(n.rv), LAMBDA play_type :
        IF play_type = <<"m", "u", "s", "i", "c">> \/ play_type = <<"s", "o", "u", "n", "d">>
        THEN [l |-> n.l, ok |-> TRUE, rv |-> play_type, err |-> NoAnyhow]
        ELSE [l |-> n.l, ok |-> FALSE, rv |-> <<>>,
              err |-> AnyhowMessage(<<"Play or sound is required">>)]))

\* str::replace("\"", "")
RECURSIVE WithoutQuotes(_)
WithoutQuotes(s) ==
    IF Len(s) = 0 THEN s
    ELSE IF s[1] = DQ THEN WithoutQuotes(Tail(s))
    ELSE <<s[1]>> \o WithoutQuotes(Tail(s))

\* parse_audio_filename
parse_audio_filename(l) ==
    With(audio_filename(l), LAMBDA f :
        IF f.rv = None
        THEN [l |-> f.l, ok |-> FALSE, rv |-> <<>>,
              err |-> AnyhowMessage(<<"provide mp3, ogg or wav file">>)]
        ELSE [l |-> f.l, ok |-> TRUE, rv |-> WithoutQuotes(f.rv[1]), err |-> NoAnyhow])

\* the patterns parse_statement hands to keyword(), in the order it tries them
StatementKeywords ==
    <<<<"#">>, <<"r", "e", "t", "u", "r", "n">>, <<"j", "u", "m", "p">>, <<"s", "c", "e", "n", "e">>, <<"g", "a", "m", "e", "_", "m", "e", "c", "h", "a", "n", "i", "c">>,
      <<"l", "l", "m", "_", "g", "e", "n", "e", "r", "a", "t", "e">>, <<"s", "h", "o", "w">>, <<"h", "i", "d", "e">>, <<"p", "l", "a", "y">>, <<"s", "t", "o", "p">>,
      <<"l", "a", "b", "e", "l">>, <<"d", "e", "f", "i", "n", "e">>>>

\* the branch of "^#"
comment_statement(l, loc) ==
    With(rest(l), LAMBDA r :
    Try(expect_eol(r.l), LAMBDA e :
        StmtOk(advance(e.l), AST("Comment", loc, [comment |-> r.rv]))))

\* the branch of "^return"
return_statement(l, loc) ==
    Try(expect_noblock(l, <<"return statement">>), LAMBDA nb :
    With(rest(nb.l), LAMBDA r :
    Try(expect_eol(r.l), LAMBDA e :
        StmtOk(advance(e.l), AST("Return", loc, [expr |-> Some(r.rv)])))))

\* the branch of "^jump"
jump_statement(l, loc) ==
    Try(expect_noblock(l, <<"jump statement">>), LAMBDA nb :
    With(name(nb.l), LAMBDA target :
    Try(expect_eol(target.l), LAMBDA e :
        StmtOk(advance(e.l),
               AST("Jump", loc, [target |-> UnwrapOrDefault(target.rv),
                                 expression |-> FALSE])))))

\* the branch of "^scene"
scene_statement(l, loc) ==
    Try(expect_noblock(l, <<"scene statement">>), LAMBDA nb :
    With(eol(nb.l), LAMBDA at_end :
        IF at_end.rv
        THEN StmtOk(advance(at_end.l),
                    AST("Scene", loc, [image |-> None, layer |-> <<"m", "a", "s", "t", "e", "r">>]))
        ELSE With(parse_image_specifier(at_end.l), LAMBDA imspec :
                 StmtOk(advance(imspec.l),
                        AST("Scene", loc, [image |-> Some(imspec.rv),
                                           layer |-> <<"m", "a", "s", "t", "e", "r">>])))))

\* the branch of "^game_mechanic"
game_mechanic_statement(l, loc) ==
    With(string(l), LAMBDA argument :
        IF argument.rv = None
        THEN StmtErr(argument.l,
                     error(argument.l, <<"Expected a string after 'game_mechanic' keyword.">>))
        ELSE Try(expect_eol(argument.l), LAMBDA e :
             Try(expect_noblock(e.l, <<"game_mechanic statement">>), LAMBDA nb :
                 StmtOk(advance(nb.l),
                        AST("GameMechanic", loc, [mechanic |-> argument.rv[1]])))))

\* the branch of "^llm_generate"
llm_generate_statement(l, loc) ==
    With(word(l), LAMBDA who :
        IF who.rv = None
        THEN StmtErr(who.l, error(who.l, <<"Expected word after 'llm_generate' keyword.">>))
        ELSE With(string(who.l), LAMBDA prompt :
             Try(expect_eol(prompt.l), LAMBDA e :
             Try(expect_noblock(e.l, <<"game_mechanic statement">>), LAMBDA nb :
                 StmtOk(advance(nb.l),
                        AST("LLMGenerate", loc, [who |-> who.rv[1],
                                                 prompt |-> prompt.rv]))))))

\* the branches of "^show" (kind "Show") and "^hide" (kind "Hide")
image_statement(l, loc, kind) ==
    With(parse_image_specifier(l), LAMBDA imspec :
    With(parse_with(imspec.l, AST(kind, loc, [image |-> imspec.rv]))[1], LAMBDA stmt :
    Try(expect_eol(imspec.l), LAMBDA e :
    Try(expect_noblock(e.l, IF kind = "Show" THEN <<"show statement">>
                                             ELSE <<"hide statement">>), LAMBDA nb :
        StmtOk(advance(nb.l), stmt)))))

\* the branch of "^play"
play_statement(l, loc) ==
    Try(parse_audio_specifier(l), LAMBDA play_type :
    Try(parse_audio_filename(play_type.l), LAMBDA filename :
    Try(expect_eol(filename.l), LAMBDA e :
        StmtOk(advance(e.l),
               AST("Play", loc, [sound_type |-> play_type.rv,
                                 filename |-> filename.rv])))))

\* the branch of "^stop"
stop_statement(l, loc) ==
    Try(parse_audio_specifier(l), LAMBDA audio_specifier :
    With(stop_arguments(audio_specifier.l), LAMBDA arguments :
    Try(expect_eol(arguments.l), LAMBDA e :
        StmtOk(advance(e.l),
               AST("Stop", loc, [audio_specifier |-> audio_specifier.rv,
                                 effect |-> arguments.rv[1],
                                 length |-> arguments.rv[2]])))))

\* the branch of "^define"
define_statement(l, loc) ==
    With(rest(l), LAMBDA definition :
    Try(expect_eol(definition.l), LAMBDA e :
        StmtOk(advance(e.l), AST("Define", loc, [definition |-> definition.rv]))))

\* user statements or say statements: what follows the keyword branches
say_statement(l, loc) ==
    With(checkpoint(l), LAMBDA state :
    With(word(l), LAMBDA w :
        IF w.rv # None
        THEN With(string(w.l), LAMBDA text :
                 IF text.rv = None
                 THEN StmtErr(text.l, error(text.l, <<"empty text in say statement">>))
                 ELSE Try(expect_noblock(text.l, w.rv[1] \o <<" statement">>), LAMBDA nb :
                          StmtOk(advance(nb.l),
                                 AST("Say", loc, [who |-> Some(w.rv[1]),
                                                  what |-> text.rv[1]]))))
        ELSE With(string(revert(w.l, state)), LAMBDA what :
                 IF what.rv = None
                 THEN StmtErr(what.l, error(what.l, <<"expected statement.">>))
                 ELSE With(eol(what.l), LAMBDA at_end :
                          IF at_end.rv
                          THEN Try(expect_noblock(at_end.l, <<"say statement">>), LAMBDA nb :
                                   StmtOk(advance(nb.l),
                                          AST("Say", loc, [who |-> None,
                                                           what |-> what.rv[1]])))
                          ELSE StmtErr(at_end.l,
                                       error(at_end.l, <<"expected statement.">>))))))

RECURSIVE parse_statement(_)
RECURSIVE parse_block(_)
RECURSIVE parse_block_loop(_, _, _)
RECURSIVE keyword_branches(_, _, _)

\* the branch of "^label": the sub-block is parsed, and its first error, if
\* any, is raised through the label's own cursor
label_statement(l, loc) ==
    With(name(l), LAMBDA label_name :
    With(parse_block(subblock_lexer(label_name.l, FALSE)), LAMBDA body :
        IF Len(body.errors) # 0
        THEN StmtErr(label_name.l, error(label_name.l, body.errors[1]))
        ELSE StmtOk(advance(label_name.l),
                    AST("Label", loc, [name |-> UnwrapOrDefault(label_name.rv),
                                       block |-> body.ast, parameters |-> None]))))

\* the statement of the k-th keyword, entered once keyword() has matched it
statement_branch(k, l, loc) ==
    CASE k = 1 -> comment_statement(l, loc)
      [] k = 2 -> return_statement(l, loc)
      [] k = 3 -> jump_statement(l, loc)
      [] k = 4 -> scene_statement(l, loc)
      [] k = 5 -> game_mechanic_statement(l, loc)
      [] k = 6 -> llm_generate_statement(l, loc)
      [] k = 7 -> image_statement(l, loc, "Show")
      [] k = 8 -> image_statement(l, loc, "Hide")
      [] k = 9 -> play_statement(l, loc)
      [] k = 10 -> stop_statement(l, loc)
      [] k = 11 -> label_statement(l, loc)
      [] k = 12 -> define_statement(l, loc)

\* the chain of `if l.keyword("^..").is_some()` from the k-th keyword on.  A
\* call of keyword() that finds nothing leaves the cursor after the
\* whitespace, where the next call skips none, so every call of the chain
\* sees what the k-th sees: the branch taken is that of the first keyword
\* from the k-th on that matches at l, and without one the say statement is
\* read from where the last call left the cursor
keyword_branches(l, loc, k) ==
    With({j \in k..Len(StatementKeywords) :
              keyword(l, LiteralRe(StatementKeywords[j])).rv # None}, LAMBDA matching :
        IF matching # {}
        THEN With(CHOOSE j \in matching : \A i \in matching : j <= i, LAMBDA taken :
                 statement_branch(taken,
                                  keyword(l, LiteralRe(StatementKeywords[taken])).l, loc))
        ELSE IF k > Len(StatementKeywords) THEN say_statement(l, loc)
        ELSE say_statement(
                 keyword(l, LiteralRe(StatementKeywords[Len(StatementKeywords)])).l, loc))

\* parse_statement
parse_statement(l) == keyword_branches(l, get_location(l), 1)

\* mutant of block_round: a line that fails takes the rest of the block with it
block_round_stops_at_error(l, ast, errors) ==
    With(parse_statement(l), LAMBDA r :
        IF r.ok
        THEN [ok |-> TRUE, l |-> r.l, ast |-> Append(ast, r.node), errors |-> errors]
        ELSE [ok |-> FALSE, l |-> [r.l EXCEPT !.eob = TRUE], ast |-> ast,
              errors |-> Append(errors, Display(r.err))])

\* mutant of block_round: after a statement that failed the cursor moves on
\* by two blocks
block_round_advances_twice(l, ast, errors) ==
    With(parse_statement(l), LAMBDA r :
        IF r.ok
        THEN [ok |-> TRUE, l |-> r.l, ast |-> Append(ast, r.node), errors |-> errors]
        ELSE [ok |-> FALSE, l |-> advance(advance(r.l)), ast |-> ast,
              errors |-> Append(errors, Display(r.err))])

\* one round of the while loop of parse_block; ok tells which arm of the
\* match was taken
block_round(l, ast, errors) ==
    With(parse_statement(l), LAMBDA r :
        IF r.ok
        THEN [ok |-> TRUE, l |-> r.l, ast |-> Append(ast, r.node), errors |-> errors]
        ELSE [ok |-> FALSE, l |-> advance(r.l), ast |-> ast,
              errors |-> Append(errors, Display(r.err))])

\* the while loop of parse_block
parse_block_loop(l, ast, errors) ==
    IF l.eob THEN [ast |-> ast, errors |-> errors]
    ELSE With(block_round(l, ast, errors), LAMBDA round :
             parse_block_loop(round.l, round.ast, round.errors))

\* parse_block: (rv, parse_errors)
parse_block(l) == parse_block_loop(advance(l), <<>>, <<>>)

(* ------------------------- parse_block as steps ------------------------ *)

\* a block before it has a line number: the text and what is indented under it
Shape(text, subs) == [text |-> text, subs |-> subs]

\* the blocks of a list of shapes and of everything under them
RECURSIVE CountBlocks(_)
CountBlocks(shapes) ==
    IF Len(shapes) = 0 THEN 0
    ELSE 1 + CountBlocks(shapes[1].subs) + CountBlocks(Tail(shapes))

\* the Blocks of a list of shapes, numbered as the lines of one file
RECURSIVE NumberBlocks(_, _)
NumberBlocks(shapes, first) ==
    IF Len(shapes) = 0 THEN <<>>
    ELSE <<LexerBlock(FileName, first, shapes[1].text,
                      NumberBlocks(shapes[1].subs, first + 1))>>
             \o NumberBlocks(Tail(shapes), first + 1 + CountBlocks(shapes[1].subs))

Hi == Shape(<<DQ, "h", "i", DQ>>, <<>>)
BareWord == Shape(<<"e">>, <<>>)

\* the statements the scripts of the model are made of
Statements ==
    {Shape(<<"r", "e", "t", "u", "r", "n">>, <<>>),
     Shape(<<"r", "e", "t", "u", "r", "n", "i", "n", "g">>, <<>>),
     Shape(<<"j", "u", "m", "p", SP, "a">>, <<>>),
     Shape(<<"j", "u", "m", "p", "e", "r">>, <<>>),
     Shape(<<"s", "c", "e", "n", "e", SP, "b", "g", SP, "a">>, <<>>),
     Shape(<<"s", "c", "e", "n", "e">>, <<>>),
     Shape(<<"s", "h", "o", "w", SP, "e", SP, "h">>, <<>>),
     Shape(<<"s", "h", "o", "w", "c", "a", "s", "e", SP, DQ, "x", DQ>>, <<>>),
     Shape(<<"h", "i", "d", "e", SP, "e">>, <<>>),
     Shape(<<"h", "i", "d", "e", "o", SP, DQ, "h", "i", DQ>>, <<>>),
     Shape(<<"p", "l", "a", "y", SP, "m", "u", "s", "i", "c", SP, DQ, "a", "b", ".", "o", "g", "g", DQ>>, <<>>),
     Shape(<<"p", "l", "a", "y", SP, "x">>, <<>>),
     Shape(<<"s", "t", "o", "p", SP, "m", "u", "s", "i", "c", SP, "f", "a", "d", "e", "o", "u", "t", SP, "1", ".", "5">>, <<>>),
     Shape(<<"s", "t", "o", "p", "p", "e", "r", SP, DQ, "h", "i", DQ>>, <<>>),
     Shape(<<"d", "e", "f", "i", "n", "e", SP, "x", SP, "=", SP, "1">>, <<>>),
     Shape(<<"g", "a", "m", "e", "_", "m", "e", "c", "h", "a", "n", "i", "c", SP, DQ, "m", DQ>>, <<>>),
     Shape(<<"l", "l", "m", "_", "g", "e", "n", "e", "r", "a", "t", "e", SP, "e", SP, DQ, "p", DQ>>, <<>>),
     Hi,
     Shape(<<"e", SP, DQ, "h", "i", DQ>>, <<>>),
     BareWord,
     Shape(<<"#", SP, "c">>, <<>>),
     Shape(<<"l", "a", "b", "e", "l", SP, "a", ":">>, <<>>),
     Shape(<<"l", "a", "b", "e", "l", SP, "a", ":">>, <<Hi>>),
     Shape(<<"l", "a", "b", "e", "l", SP, "a", ":">>, <<Hi, BareWord>>),
     Shape(<<"l", "a", "b", "e", "l", SP, "a", ":">>, <<BareWord, Hi>>),
     Shape(<<"l", "a", "b", "e", "l", SP, "a", ":">>, <<Shape(<<"l", "a", "b", "e", "l", SP, "b", ":">>, <<Hi>>)>>),
     Shape(<<"l", "a", "b", "e", "l", SP, "a", ":">>, <<Shape(<<"l", "a", "b", "e", "l", SP, "b", ":">>, <<BareWord>>)>>),
     Shape(<<DQ, "h", "i", DQ>>, <<Hi>>),
     Shape(<<"r", "e", "t", "u", "r", "n", SP, "e">>, <<>>),
     Shape(<<"l", "a", "b", "e", "l", SP, "s", "t", "a", "r", "t", ":">>, <<Shape(<<DQ, "H", "e", "l", "l", "o", ",", SP, "w", "o", "r", "l", "d", ".", DQ>>, <<>>), Shape(<<"r", "e", "t", "u", "r", "n">>, <<>>)>>),
     Shape(<<"d", "e", "f", "i", "n", "e", SP, "a", TAB, "b">>, <<>>),
     Shape(<<"d", "e", "f", "i", "n", "e", SP, DQ>>, <<>>),
     Shape(<<"d", "e", "f", "i", "n", "e", SP, "(", "a", ")">>, <<>>),
     Shape(<<"d", "e", "f", "i", "n", "e", SP, "(">>, <<>>),
     Shape(<<"d", "e", "f", "i", "n", "e", SP, BS>>, <<>>),
     Shape(<<"d", "e", "f", "i", "n", "e", SP, "a", NL, SP, SP, "b", NL, SP, "c">>, <<>>)}

\* the statements around the one under study: one that parses, one that fails
Context == {Hi, BareWord}

\* before parse_block is called
ParseIdle ==
    /\ tree = <<>>
    /\ lexer = LexerNew(<<>>, FALSE)
    /\ parse_rv = <<>>
    /\ parse_errors = <<>>
    /\ parse_pc = "idle"

\* parse_block is entered with a fresh cursor over the blocks of a script: up
\* to MaxBlocks statements, any one of them drawn from Statements
ParseInit ==
    /\ \E n \in 0..MaxBlocks : \E f \in [1..n -> Context] :
           \E k \in 0..n : \E s \in Statements :
               tree = NumberBlocks(IF k = 0 THEN f ELSE [f EXCEPT ![k] = s], 1)
    /\ lexer = LexerNew(tree, FALSE)
    /\ parse_rv = <<>>
    /\ parse_errors = <<>>
    /\ parse_pc = "start"

\* l.advance() before the loop
PbAdvance ==
    /\ parse_pc = "start"
    /\ lexer' = advance(lexer)
    /\ parse_pc' = "loop"
    /\ UNCHANGED <<tree, parse_rv, parse_errors>>
    /\ UNCHANGED <<scanVars, groupVars, lexVars, roundVars, injectVars>>

\* the loop goes through the round that took the arm ok of the match
PbRound(round, ok) ==
    /\ round.ok = ok
    /\ lexer' = round.l
    /\ parse_rv' = round.ast
    /\ parse_errors' = round.errors

\* a round of the loop in which parse_statement returns Ok(stmt)
PbStatementOk ==
    /\ parse_pc = "loop"
    /\ ~lexer.eob
    /\ PbRound(block_round(lexer, parse_rv, parse_errors), TRUE)
    /\ UNCHANGED <<tree, parse_pc>>
    /\ UNCHANGED <<scanVars, groupVars, lexVars, roundVars, injectVars>>

\* a round of the loop in which parse_statement returns Err(e)
PbStatementErr ==
    /\ parse_pc = "loop"
    /\ ~lexer.eob
    /\ PbRound(block_round(lexer, parse_rv, parse_errors), FALSE)
    /\ UNCHANGED <<tree, parse_pc>>
    /\ UNCHANGED <<scanVars, groupVars, lexVars, roundVars, injectVars>>

\* the loop ends at the end of the block: (rv, parse_errors) is returned
PbReturn ==
    /\ parse_pc = "loop"
    /\ lexer.eob
    /\ parse_pc' = "done"
    /\ UNCHANGED <<tree, lexer, parse_rv, parse_errors>>
    /\ UNCHANGED <<scanVars, groupVars, lexVars, roundVars, injectVars>>

ParseNext ==
    \/ PbAdvance
    \/ PbStatementOk
    \/ PbStatementErr
    \/ PbReturn

(* ------------------- the cursor's operations as steps ------------------ *)

\* simple_expression, the stripped form of the source: Ok(None) at the end of
\* the line, else the slice from start to where the loop's one pass leaves pos
simple_expression(l) ==
    With(eol(skip_whitespace(l)).l, LAMBDA l1 :
        IF l1.pos >= Len(l1.text) THEN Ret(l1, None)
        ELSE With(eol(skip_whitespace(eol(l1).l)).l, LAMBDA l2 :
                 Ret(l2, Some(SubSeq(l2.text, l1.pos + 1, l2.pos)))))

\* the characters of the lines handed to a cursor that is driven call by call
LexAlphabet == {DQ, "r", SP}

\* the patterns handed to match_ by the primitives of the cursor
Patterns == {StringRe(DQ), WordRe, AudioFilenameRe, StopArgumentsRe}

\* a call on the cursor: where the cursor stood, and the value returned
Call(op, from, value) == [op |-> op, from |-> from, rv |-> value]

\* no cursor is driven call by call
LexIdle ==
    /\ lex_state = None
    /\ lex_call = Call("none", 0, None)

\* Lexer::new over one block whose line is any text over LexAlphabet
LexInit ==
    /\ \E n \in 0..MaxText : \E t \in [1..n -> LexAlphabet] :
           tree = <<LexerBlock(FileName, 1, t, <<>>)>>
    /\ lexer = LexerNew(tree, FALSE)
    /\ parse_rv = <<>>
    /\ parse_errors = <<>>
    /\ parse_pc = "idle"
    /\ LexIdle

\* the cursor and the record of the call after a call that returned r
LxCall(op, r) ==
    /\ lexer' = r.l
    /\ lex_call' = Call(op, lexer.pos, r.rv)
    /\ UNCHANGED <<tree, parse_rv, parse_errors, parse_pc, lex_state>>
    /\ UNCHANGED <<scanVars, groupVars, roundVars, injectVars>>

\* l.advance(), until the end of the block is reached
LxAdvance ==
    /\ ~lexer.eob
    /\ LxCall("advance", Ret(advance(lexer), Some(~advance(lexer).eob)))

\* l.match_(pat)
LxMatch == \E re \in Patterns : LxCall("match", match_(lexer, re))

\* l.keyword(pat), with the patterns parse_statement hands to it
LxKeyword ==
    \E k \in 1..Len(StatementKeywords) :
        LxCall("keyword", keyword(lexer, LiteralRe(StatementKeywords[k])))

\* l.name()
LxName == LxCall("name", name(lexer))

\* l.word()
LxWord == LxCall("word", word(lexer))

\* l.string()
LxString == LxCall("string", string(lexer))

\* l.rest()
LxRest == LxCall("rest", Ret(rest(lexer).l, Some(rest(lexer).rv)))

\* l.eol()
LxEol == LxCall("eol", Ret(eol(lexer).l, Some(eol(lexer).rv)))

\* l.simple_expression()
LxSimpleExpression == LxCall("simple_expression", simple_expression(lexer))

\* let state = l.checkpoint()
LxCheckpoint ==
    /\ lex_state' = Some(checkpoint(lexer))
    /\ lex_call' = Call("checkpoint", lexer.pos, None)
    /\ UNCHANGED <<tree, lexer, parse_rv, parse_errors, parse_pc>>
    /\ UNCHANGED <<scanVars, groupVars, roundVars, injectVars>>

\* l.revert(state.clone())
LxRevert ==
    /\ lex_state # None
    /\ lexer' = revert(lexer, lex_state[1])
    /\ lex_call' = Call("revert", lexer.pos, None)
    /\ UNCHANGED <<tree, parse_rv, parse_errors, parse_pc, lex_state>>
    /\ UNCHANGED <<scanVars, groupVars, roundVars, injectVars>>

LexNext ==
    \/ LxAdvance
    \/ LxMatch
    \/ LxKeyword
    \/ LxName
    \/ LxWord
    \/ LxString
    \/ LxRest
    \/ LxEol
    \/ LxSimpleExpression
    \/ LxCheckpoint
    \/ LxRevert

(* ----------------------------- inject_node ----------------------------- *)

\* AST::index: the first field of every variant
index(n) == n.loc

\* AST::index and AST::set_index are todo!() on AST::Error
HasIndex(n) == n.kind # "Error"

\* AST::set_index
set_index(n, i) == [n EXCEPT !.loc = i]

\* where sort_by_key puts n in a sorted list: after the nodes whose key is
\* not greater (the sort is stable)
RECURSIVE InsertByKey(_, _)
InsertByKey(s, n) ==
    IF Len(s) = 0 THEN <<n>>
    ELSE IF index(s[Len(s)]) <= index(n) THEN Append(s, n)
    ELSE Append(InsertByKey(SubSeq(s, 1, Len(s) - 1), n), s[Len(s)])

\* shifted_ast.sort_by_key(|item| item.index())
RECURSIVE sort_by_key(_)
sort_by_key(s) ==
    IF Len(s) = 0 THEN <<>>
    ELSE InsertByKey(sort_by_key(SubSeq(s, 1, Len(s) - 1)), s[Len(s)])

\* step 1 of inject_node: the nodes at or after node_index move up by one
shifted_ast(ast, node_index) ==
    [i \in 1..Len(ast) |->
        IF index(ast[i]) >= node_index
        THEN set_index(ast[i], index(ast[i]) + 1) ELSE ast[i]]

\* what a call of inject_node comes to: the list returned, or a panic
Returned(list) == [ok |-> TRUE, rv |-> list]
Panicked == [ok |-> FALSE, rv |-> <<>>]

\* mutant of inject_node: only the nodes after node_index move up
inject_node_shifts_after(ast, node) ==
    IF ~HasIndex(node) \/ \E i \in 1..Len(ast) : ~HasIndex(ast[i]) THEN Panicked
    ELSE Returned(sort_by_key(Append(shifted_ast(ast, index(node) + 1), node)))

\* inject_node
inject_node(ast, node) ==
    IF ~HasIndex(node) \/ \E i \in 1..Len(ast) : ~HasIndex(ast[i]) THEN Panicked
    ELSE Returned(sort_by_key(Append(shifted_ast(ast, index(node)), node)))

\* the nodes handed to inject_node with index i: a comment, a return, a label
\* with a statement in its body
NodesAt(i) ==
    {AST("Comment", i, [comment |-> <<"a">>]),
     AST("Return", i, [expr |-> None]),
     AST("Label", i, [name |-> <<"l">>,
                      block |-> <<AST("Return", i + 1, [expr |-> None])>>])}

\* the top-level indices of a list go up strictly
StrictlyIncreasing(ast) ==
    \A i \in 1..Len(ast) - 1 : index(ast[i]) < index(ast[i + 1])

\* inject_node is not called
InjectIdle ==
    /\ inject_ast = <<>>
    /\ injected = None
    /\ inject_pc = "idle"

\* before the first call: a list as parse_block returns it, the indices of
\* its nodes going up strictly
InjectInit ==
    /\ \E n \in 0..MaxNodes :
           \E s \in SeqsOfLen(UNION {NodesAt(i) : i \in 0..MaxNodes}, n) :
               /\ StrictlyIncreasing(s)
               /\ inject_ast = s
    /\ injected = None
    /\ inject_pc = "ready"

\* the nodes a caller hands over: any of NodesAt, or AST::Error
InjectArgs == UNION {NodesAt(i) : i \in 0..MaxNodes + 1} \cup {ErrorNode}

\* ast = inject_node(ast, node)
InjectNode ==
    /\ inject_pc \in {"ready", "returned"}
    /\ Len(inject_ast) <= MaxNodes
    /\ \E node \in InjectArgs :
           /\ inject_node(inject_ast, node).ok
           /\ inject_ast' = inject_node(inject_ast, node).rv
           /\ injected' = Some(node)
    /\ inject_pc' = "returned"
    /\ UNCHANGED <<scanVars, groupVars, parseVars, lexVars>> /\ UNCHANGED roundVars

\* inject_node(ast, node) panics in index(); the list moved into it is gone
InjectNodePanics ==
    /\ inject_pc \in {"ready", "returned"}
    /\ Len(inject_ast) <= MaxNodes
    /\ \E node \in InjectArgs :
           /\ ~inject_node(inject_ast, node).ok
           /\ injected' = Some(node)
    /\ inject_ast' = <<>>
    /\ inject_pc' = "panicked"
    /\ UNCHANGED <<scanVars, groupVars, parseVars, lexVars>> /\ UNCHANGED roundVars

InjectNext ==
    \/ InjectNode
    \/ InjectNodePanics

(* ---------------------- parse, format, parse again --------------------- *)

\* block_string.replace("\n", "\n    ")
RECURSIVE IndentNewlines(_)
IndentNewlines(s) ==
    IF Len(s) = 0 THEN s
    ELSE IF s[1] = NL THEN <<NL, SP, SP, SP, SP>> \o IndentNewlines(Tail(s))
    ELSE <<s[1]>> \o IndentNewlines(Tail(s))

RECURSIVE fmt_AST(_)

\* impl Display for ASTVec: the elements formatted and joined by "\n"
RECURSIVE fmt_ASTVec(_)
fmt_ASTVec(nodes) ==
    IF Len(nodes) = 0 THEN <<>>
    ELSE IF Len(nodes) = 1 THEN fmt_AST(nodes[1])
    ELSE fmt_AST(nodes[1]) \o <<NL>> \o fmt_ASTVec(Tail(nodes))

\* impl Display for AST
fmt_AST(n) ==
    CASE n.kind = "Define" -> <<"d", "e", "f", "i", "n", "e", SP>> \o n.definition
      [] n.kind = "Hide" -> <<"h", "i", "d", "e", SP>> \o n.image
      [] n.kind = "Jump" -> <<"j", "u", "m", "p", SP>> \o n.target
      [] n.kind = "Label" ->
            <<"l", "a", "b", "e", "l", SP>> \o n.name \o <<":", NL, SP, SP, SP, SP>>
                \o IndentNewlines(fmt_ASTVec(n.block))
      [] n.kind = "Play" ->
            <<"p", "l", "a", "y", SP>> \o n.sound_type \o <<SP, DQ>> \o n.filename \o <<DQ>>
      [] n.kind = "Return" -> <<"r", "e", "t", "u", "r", "n">>
      [] n.kind = "Say" ->
            IF n.who # None THEN n.who[1] \o <<SP, DQ>> \o n.what \o <<DQ>>
            ELSE <<DQ>> \o n.what \o <<DQ>>
      [] n.kind = "Scene" -> <<"s", "c", "e", "n", "e", SP>> \o UnwrapOrDefault(n.image)
      [] n.kind = "Show" -> <<"s", "h", "o", "w", SP>> \o n.image
      [] n.kind = "Stop" -> <<"s", "t", "o", "p", SP>> \o n.audio_specifier
      [] n.kind = "GameMechanic" -> <<"g", "a", "m", "e", "_", "m", "e", "c", "h", "a", "n", "i", "c", SP, DQ>> \o n.mechanic \o <<DQ>>
      [] n.kind = "LLMGenerate" ->
            <<"l", "l", "m", "_", "g", "e", "n", "e", "r", "a", "t", "e", SP>> \o n.who \o <<SP, DQ>>
                \o (IF n.prompt # None THEN n.prompt[1] ELSE <<>>) \o <<DQ>>
      [] n.kind = "Comment" -> <<"#">> \o n.comment
      [] n.kind = "Error" -> <<>>

\* the blocks of the grouper as the blocks a cursor walks
RECURSIVE ToLexerBlocks(_)
ToLexerBlocks(bs) ==
    [k \in 1..Len(bs) |->
        LexerBlock(bs[k].filename, bs[k].line_number, bs[k].content,
                   ToLexerBlocks(bs[k].sub_blocks))]

\* nothing has been formatted
RoundIdle == first_ast = None

\* a script parsed without errors: its statements are formatted and the text
\* goes to list_logical_lines
RtFormat ==
    /\ parse_pc = "done"
    /\ parse_errors = <<>>
    /\ first_ast = None
    /\ first_ast' = Some(parse_rv)
    /\ parse_pc' = "formatted"
    /\ source' = fmt_ASTVec(parse_rv)
    /\ data' = Prepare(fmt_ASTVec(parse_rv))
    /\ scan_pc' = "outer"
    /\ UNCHANGED <<pos, number, start_number, line, parendepth, delim, escape,
                   rv, scan_result, ended>>
    /\ UNCHANGED <<tree, lexer, parse_rv, parse_errors>>
    /\ UNCHANGED <<groupVars, lexVars, injectVars>>

\* the logical lines go to group_logical_lines
RtGroup ==
    /\ scan_pc = "done"
    /\ scan_result = Ok
    /\ group_pc = "idle"
    /\ lines' = rv
    /\ frames' = <<Frame(0)>>
    /\ group_pc' = "run"
    /\ UNCHANGED <<gll_i, group_result, blocks>>
    /\ UNCHANGED <<scanVars, parseVars, lexVars, roundVars, injectVars>>

\* the block tree goes to parse_block under a fresh cursor
RtParse ==
    /\ group_pc = "done"
    /\ group_result = Ok
    /\ parse_pc = "formatted"
    /\ tree' = ToLexerBlocks(blocks)
    /\ lexer' = LexerNew(ToLexerBlocks(blocks), FALSE)
    /\ parse_rv' = <<>>
    /\ parse_errors' = <<>>
    /\ parse_pc' = "start"
    /\ UNCHANGED <<scanVars, groupVars, lexVars, roundVars, injectVars>>

RoundNext ==
    \/ ParseNext
    \/ RtFormat
    \/ ScanNext
    \/ RtGroup
    \/ GroupNext
    \/ RtParse

(* --------------------------- specifications --------------------------- *)

InitScan == ScanInit /\ GroupIdle /\ ParseIdle /\ LexIdle /\ RoundIdle /\ InjectIdle

SpecScan == InitScan /\ [][ScanNext]_vars

InitGroup == ScanIdle /\ GroupInit /\ ParseIdle /\ LexIdle /\ RoundIdle /\ InjectIdle

SpecGroup == InitGroup /\ [][GroupNext]_vars

InitParse == ScanIdle /\ GroupIdle /\ ParseInit /\ LexIdle /\ RoundIdle /\ InjectIdle

SpecParse == InitParse /\ [][ParseNext]_vars

InitLex == ScanIdle /\ GroupIdle /\ LexInit /\ RoundIdle /\ InjectIdle

SpecLex == InitLex /\ [][LexNext]_vars

SpecRound == InitParse /\ [][RoundNext]_vars

InitInject == ScanIdle /\ GroupIdle /\ ParseIdle /\ LexIdle /\ RoundIdle /\ InjectInit

SpecInject == InitInject /\ [][InjectNext]_vars

(* ------------------- claims about list_logical_lines ------------------ *)

HasTab(s) == \E k \in 1..Len(s) : s[k] = TAB

FirstTab(s) == CHOOSE k \in 1..Len(s) : s[k] = TAB /\ \A j \in 1..(k - 1) : s[j] # TAB

\* 1-based physical line of position k (1-based) of s
PhysicalLine(s, k) == 1 + Cardinality({j \in 1..(k - 1) : s[j] = NL})

\* C1: every source that holds a tab, wherever the tab stands, is rejected
\* with the tab message at the physical line of its first tab, and no
\* logical line is returned.
C1_EveryTabIsFatal ==
    (scan_pc = "done" /\ HasTab(source)) =>
        /\ scan_result.kind = "err"
        /\ scan_result.err.message = TabMessage
        /\ scan_result.err.line_number = PhysicalLine(source, FirstTab(source))

\* the last newline of data ended a logical line: nothing was left open
ClosedAtEnd == (Len(data) - 1) \in ended

\* position (0-based) at which the last logical line of data starts
LastLineStart == IF ended = {} THEN 0
                 ELSE 1 + CHOOSE p \in ended : \A q \in ended : q <= p

IsUnterminatedError ==
    scan_result.kind = "err" /\ scan_result.err.message = UnterminatedMessage

\* C2: a tab-free source is rejected as unterminated exactly when the input
\* ends inside a string or inside brackets, and then at the physical line on
\* which the unfinished logical line started.
C2_UnterminatedExactlyWhenOpen ==
    (scan_pc = "done" /\ ~HasTab(source)) =>
        /\ IsUnterminatedError <=> ~ClosedAtEnd
        /\ IsUnterminatedError =>
              scan_result.err.line_number = PhysicalLine(data, LastLineStart + 1)

\* the newlines of data consumed by the step
NewlinesConsumed == {p \in pos..(pos' - 1) : data[p + 1] = NL}

\* C3: a newline ends the logical line exactly when the scanner meets it
\* outside a string, not as the second half of a backslash-newline, with
\* parendepth 0; parendepth moves only on brackets met outside strings and
\* comments, up on an opener, down on a closer, and is never negative; a '#'
\* met inside a string is copied like any other character.
C3_NewlineStep ==
    \A p \in NewlinesConsumed :
        (p \in ended') <=> (scan_pc = "inner" /\ p = pos /\ parendepth = 0)

C3_DepthStep ==
    /\ (scan_pc = "inner" /\ pos < Len(data) /\ Cur \in OpenBrackets)
          => parendepth' = parendepth + 1
    /\ (scan_pc = "inner" /\ pos < Len(data) /\ Cur \in CloseBrackets)
          => parendepth' = (IF parendepth = 0 THEN 0 ELSE parendepth - 1)
    /\ parendepth' # parendepth
          => \/ scan_pc = "outer"
             \/ scan_pc = "inner" /\ Cur \in OpenBrackets \cup CloseBrackets

C3_HashInString ==
    (scan_pc = "string" /\ pos < Len(data) /\ Cur = "#")
        => line' = Append(line, "#") /\ pos' = pos + 1 /\ scan_pc' = "string"

C3_LogicalLineEnds ==
    /\ [](parendepth >= 0)
    /\ [][C3_NewlineStep /\ C3_DepthStep /\ C3_HashInString]_vars

\* the scan succeeded and returned a logical line in which a newline met
\* inside brackets was kept as data
C3_Witness ==
    /\ scan_pc = "done"
    /\ scan_result.kind = "ok"
    /\ ended # {}
    /\ \E k \in 1..Len(rv) :
          \E i \in 2..Len(rv[k].text) :
              rv[k].text[i] = NL /\ rv[k].text[i - 1] = "("

(* ------------------ claims about group_logical_lines ------------------ *)

\* the text without the spaces it starts with
RECURSIVE StripSpaces(_)
StripSpaces(text) ==
    IF Len(text) > 0 /\ Head(text) = SP THEN StripSpaces(Tail(text)) ELSE text

\* indentation depth of a text: the spaces before its first other character
Indentation(text) == Len(text) - Len(StripSpaces(text))

\* indentation depth of the k-th input line
Depths == [k \in 1..Len(lines) |-> Indentation(lines[k].text)]

\* every block of a forest of blocks
RECURSIVE BlocksOf(_)
BlocksOf(bs) ==
    UNION {{bs[k]} \cup BlocksOf(bs[k].sub_blocks) : k \in 1..Len(bs)}

\* index of the input line a block was made from
LineIndexOf(b) == CHOOSE k \in 1..Len(lines) : lines[k].line_number = b.line_number

Grouped == group_pc = "done" /\ group_result.kind = "ok"

MismatchAt(k) ==
    Err(ParseError(lines[k].filename, lines[k].line_number, MismatchMessage, None, None))

\* C4: the text of every block of the returned tree is its line's text
\* without the leading run of spaces: no other character is lost.
C4_ContentIsLineWithoutIndent ==
    Grouped =>
        \A b \in BlocksOf(blocks) :
            /\ b.content = StripSpaces(lines[LineIndexOf(b)].text)
            /\ Len(b.content) > 0 => b.content[1] # SP

\* line k is indented deeper than the line before it, itself a child of the
\* line before (parent, child, deeper line)
DeeperThanChild(k) ==
    /\ k >= 3
    /\ Depths[k - 2] < Depths[k - 1]
    /\ Depths[k - 1] < Depths[k]

\* C5, as claimed: a line indented deeper than the child line before it makes
\* group_logical_lines fail with "indentation mismatch" at that line.
C5_DeeperLineIsMismatch ==
    (group_pc = "done" /\ Len(lines) >= 3 /\ DeeperThanChild(3)
        /\ Depths[1] = 0 /\ Depths[2] = 1)
        => group_result = MismatchAt(3)

\* C5, amended: a line indented deeper than the child line before it is no
\* mismatch; when the call succeeds that line is the first sub-block of the
\* child before it.
C5_DeeperLineIsSubBlock ==
    group_pc = "done" =>
        \A k \in 1..Len(lines) :
            DeeperThanChild(k) =>
                /\ group_result # MismatchAt(k)
                /\ Grouped =>
                      \E b \in BlocksOf(blocks) :
                          /\ b.line_number = lines[k - 1].line_number
                          /\ Len(b.sub_blocks) > 0
                          /\ b.sub_blocks[1].line_number = lines[k].line_number

\* label a: / "x" one space deep / "y" two spaces deep, grouped without error
C5_Witness ==
    /\ Grouped
    /\ Len(lines) = 3
    /\ Depths = <<0, 1, 2>>
    /\ Len(blocks) = 1

\* depths of the sibling groups still open before line k: a line's depth
\* stays open while every later line is deeper than it
OpenDepths(k) ==
    {Depths[j] : j \in {j \in 1..(k - 1) : \A m \in (j + 1)..(k - 1) : Depths[m] > Depths[j]}}

\* line k is neither a deeper child of the line before it nor back at the
\* depth of an open sibling group
IsBadLine(k) ==
    /\ k > 1
    /\ Depths[k] <= Depths[k - 1]
    /\ Depths[k] \notin OpenDepths(k)

BadLines == {k \in 1..Len(lines) : IsBadLine(k)}

FirstBadLine == CHOOSE k \in BadLines : \A j \in BadLines : k <= j

\* C6: group_logical_lines fails, with "indentation mismatch" and the line's
\* number, at the first line that is neither deeper than the line before it
\* nor at the depth of an open sibling group; with no such line it succeeds.
C6_MismatchAtFirstBadLine ==
    group_pc = "done" =>
        IF BadLines = {} THEN group_result = Ok
        ELSE group_result = MismatchAt(FirstBadLine)

\* the call failed at a line that pops to a depth between two open levels,
\* after at least two good lines
C6_Witness ==
    /\ group_pc = "done"
    /\ group_result.kind = "err"
    /\ BadLines # {}
    /\ FirstBadLine >= 3
    /\ Depths[FirstBadLine] > Depths[1]
    /\ Depths[FirstBadLine] < Depths[FirstBadLine - 1]

SameDepth(bs) ==
    \A j, k \in 1..Len(bs) :
        Depths[LineIndexOf(bs[j])] = Depths[LineIndexOf(bs[k])]

\* C7: in a returned tree sibling blocks come from lines of one depth, and a
\* child comes from a line deeper than its parent's line.
C7_SiblingsAlignedChildrenDeeper ==
    Grouped =>
        /\ SameDepth(blocks)
        /\ \A b \in BlocksOf(blocks) :
              /\ SameDepth(b.sub_blocks)
              /\ \A k \in 1..Len(b.sub_blocks) :
                    Depths[LineIndexOf(b.sub_blocks[k])] > Depths[LineIndexOf(b)]

\* a tree with two top-level blocks, one of them with two children
C7_Witness ==
    /\ Grouped
    /\ Len(blocks) >= 2
    /\ \E b \in BlocksOf(blocks) : Len(b.sub_blocks) >= 2

(* ------------------------ claims about parse_block --------------------- *)

\* the blocks of a list and everything indented under them
RECURSIVE AllBlocks(_)
AllBlocks(bs) ==
    IF Len(bs) = 0 THEN {}
    ELSE {bs[1]} \cup AllBlocks(bs[1].subblocks) \cup AllBlocks(Tail(bs))

\* the nodes of a list of statements and of the label bodies in it
RECURSIVE AllNodes(_)
AllNodes(nodes) ==
    IF Len(nodes) = 0 THEN {}
    ELSE {nodes[1]}
           \cup (IF nodes[1].kind = "Label" THEN AllNodes(nodes[1].block) ELSE {})
           \cup AllNodes(Tail(nodes))

\* what parse_block returns for a script that consists of block b alone
Alone(b) == parse_block(LexerNew(<<b>>, FALSE))

\* node n is the statement of block b: it is what b parses to, it carries b's
\* line number, and the body of a label is, node by node, made of b's sub-blocks
RECURSIVE ParsedFrom(_, _)
ParsedFrom(n, b) ==
    /\ n.loc = b.line_number
    /\ Alone(b).ast = <<n>>
    /\ n.kind = "Label" =>
          /\ Len(n.block) = Len(b.subblocks)
          /\ \A j \in 1..Len(n.block) : ParsedFrom(n.block[j], b.subblocks[j])

\* C8: every node parse_block returns, at the top level and in label bodies at
\* any depth, has as loc the line_number of the block it was parsed from
C8_LocIsLineOfBlock ==
    \A i \in 1..Len(parse_rv) :
        \E k \in 1..Len(tree) : ParsedFrom(parse_rv[i], tree[k])

\* a finished parse whose second statement is a label holding a label that
\* holds a statement
C8_Witness ==
    /\ parse_pc = "done"
    /\ Len(parse_rv) = 2
    /\ parse_rv[1].loc = 1
    /\ parse_rv[2].kind = "Label"
    /\ parse_rv[2].loc = 2
    /\ Len(parse_rv[2].block) = 1
    /\ parse_rv[2].block[1].kind = "Label"
    /\ parse_rv[2].block[1].loc = 3
    /\ Len(parse_rv[2].block[1].block) = 1
    /\ parse_rv[2].block[1].block[1].loc = 4

\* the line of block b parses when nothing is indented under it
ParsesOnItsOwn(b) == Len(Alone([b EXCEPT !.subblocks = <<>>]).errors) = 0

\* the line numbers of the statements in a result
Locs(nodes) == {n.loc : n \in AllNodes(nodes)}

\* C9 as stated: a failure costs only the offending line; at any depth a line
\* that parses on its own is a node of the result, a line that does not is
\* missing from it and is reported once
C9_FailureCostsOnlyTheLine ==
    parse_pc = "done" =>
        /\ \A b \in AllBlocks(tree) :
              ParsesOnItsOwn(b) <=> b.line_number \in Locs(parse_rv)
        /\ Len(parse_errors) = Cardinality({b \in AllBlocks(tree) : ~ParsesOnItsOwn(b)})

\* parse_statement succeeds on block b, sub-blocks included
Succeeds(b) == Len(Alone(b).errors) = 0
Fails(b) == ~Succeeds(b)

\* the blocks the top-level cursor has been through
Processed == SubSeq(tree, 1, lexer.line)

\* the line of block b is a label statement
IsLabelLine(b) ==
    /\ ParsesOnItsOwn(b)
    /\ Alone([b EXCEPT !.subblocks = <<>>]).ast[1].kind = "Label"

\* the errors parse_block collects in the body of block b
BodyErrors(b) == parse_block(LexerNew(b.subblocks, FALSE)).errors

\* the error a label statement at block b raises for the body error msg
LabelError(b, msg) ==
    <<"On line ", ToString(b.line_number), " of ", b.filename, ": ">> \o msg

\* C9, amended: within one parse_block call every block the cursor has been
\* through has exactly one outcome, in source order (a node if its statement
\* parses, one error string if not), and the cursor ends behind the last
\* block; a label whose body reports an error fails as a whole: the label and
\* every line of its body are missing from the result and the label's line is
\* reported once, with the first error of the body as its message
C9_FailureCostsTheLineOrTheLabel ==
    parse_pc \in {"loop", "done"} =>
        /\ lexer.line <= Len(tree)
        /\ parse_pc = "done" => lexer.line = Len(tree)
        /\ LET good == SelectSeq(Processed, Succeeds)
           IN  /\ Len(parse_rv) = Len(good)
               /\ \A i \in 1..Len(parse_rv) : parse_rv[i].loc = good[i].line_number
        /\ LET bad == SelectSeq(Processed, Fails)
           IN  /\ Len(parse_errors) = Len(bad)
               /\ \A i \in 1..Len(parse_errors) :
                     parse_errors[i] = Alone(bad[i]).errors[1]
        /\ \A k \in 1..lexer.line :
              (IsLabelLine(tree[k]) /\ Len(BodyErrors(tree[k])) > 0) =>
                  /\ \A b \in AllBlocks(<<tree[k]>>) :
                        b.line_number \notin Locs(parse_rv)
                  /\ Cardinality({i \in 1..Len(parse_errors) :
                        parse_errors[i] = LabelError(tree[k], BodyErrors(tree[k])[1])}) = 1

\* a finished parse of a label whose body has a line that parses and then one
\* that does not, followed by a statement that parses
C9_Witness ==
    /\ parse_pc = "done"
    /\ Len(tree) = 2
    /\ IsLabelLine(tree[1])
    /\ Len(tree[1].subblocks) = 2
    /\ Succeeds(tree[1].subblocks[1])
    /\ Fails(tree[1].subblocks[2])
    /\ Len(parse_errors) = 1
    /\ Len(parse_rv) = 1
    /\ parse_rv[1].loc = 4

\* the variant the branch of each statement keyword builds
StatementKinds ==
    <<"Comment", "Return", "Jump", "Scene", "GameMechanic", "LLMGenerate",
      "Show", "Hide", "Play", "Stop", "Label", "Define">>

\* the first identifier of the text begins with keyword w and goes on
MerelyBeginsWith(text, w) ==
    /\ HasAt(text, 0, w)
    /\ RunEnd(text, 0, WordStart) > Len(w)

\* C10: keyword(w) needs a word boundary after w; a line whose first
\* identifier merely begins with a statement keyword is never parsed as that
\* keyword's statement, it is parsed as the say statement it is
C10_KeywordNeedsWordBoundary ==
    \A k \in 1..Len(Processed) : \A j \in 2..Len(StatementKeywords) :
        MerelyBeginsWith(tree[k].text, StatementKeywords[j]) =>
            /\ \A i \in 1..Len(parse_rv) :
                  parse_rv[i].loc = tree[k].line_number =>
                      parse_rv[i].kind # StatementKinds[j]
            /\ Fails(tree[k]) =>
                  ~say_statement(advance(LexerNew(<<tree[k]>>, FALSE)),
                                 tree[k].line_number).ok

(* ------------- claims about the cursor, the parser, the formatter ------------ *)

\* the literal string() takes from the cursor l: what its pattern matches
Literal(l) == match_(l, StringRe(DQ)).rv[1]

\* the literal without its delimiters and without the r prefix, if it has one
Body(lit) ==
    IF lit[1] = "r" THEN SubSeq(lit, 3, Len(lit) - 1) ELSE SubSeq(lit, 2, Len(lit) - 1)

\* what the escapes and the whitespace runs of a body decode to
Decoded(body) ==
    CollapseWhitespace(DropBackslashes(DecodeUnicode(ReplaceBackslashN(body))))

\* C11: string() returns the body of the literal, the two delimiters and the
\* r prefix removed: decoded when the literal has no r prefix, whatever the
\* body starts with, and verbatim when it has one
C11_StringReturnsBody ==
    [][(lex_call'.op = "string" /\ lex_call'.rv # None) =>
          lex_call'.rv[1] = IF Literal(lexer)[1] = "r"
                            THEN Body(Literal(lexer))
                            ELSE Decoded(Body(Literal(lexer)))]_vars

\* the block of the script a node's loc names
BlockAt(loc) == CHOOSE b \in AllBlocks(tree) : b.line_number = loc

\* what follows the keyword return on a line, without the whitespace before it
AfterReturn(text) == StripSpaces(SubSeq(text, 7, Len(text)))

\* the script of the spec's first example and the statements it gives
HelloScript ==
    NumberBlocks(<<Shape(<<"l", "a", "b", "e", "l", SP, "s", "t", "a", "r", "t", ":">>, <<Shape(<<DQ, "H", "e", "l", "l", "o", ",", SP, "w", "o", "r", "l", "d", ".", DQ>>, <<>>), Shape(<<"r", "e", "t", "u", "r", "n">>, <<>>)>>)>>, 1)

HelloAST ==
    <<AST("Label", 1,
          [name |-> <<"s", "t", "a", "r", "t">>,
           block |-> <<AST("Say", 2, [who |-> None, what |-> <<"H", "e", "l", "l", "o", ",", SP, "w", "o", "r", "l", "d", ".">>]),
                       AST("Return", 3, [expr |-> None])>>,
           parameters |-> None])>>

\* C12: a return line with nothing after the keyword gives Return(loc, none),
\* one with text after it gives Return(loc, some(text)); the script label
\* start: / "Hello, world." / return gives the statements of the example and
\* no error
C12_ReturnWithoutTextIsNone ==
    parse_pc = "done" =>
        /\ \A n \in AllNodes(parse_rv) :
              n.kind = "Return" =>
                  n.expr = IF AfterReturn(BlockAt(n.loc).text) = <<>>
                           THEN None
                           ELSE Some(AfterReturn(BlockAt(n.loc).text))
        /\ tree = HelloScript => parse_rv = HelloAST /\ parse_errors = <<>>

\* a list of statements without their locs, at every depth
RECURSIVE WithoutLoc(_)
WithoutLoc(nodes) ==
    [k \in 1..Len(nodes) |->
        IF nodes[k].kind = "Label"
        THEN [nodes[k] EXCEPT !.loc = 0, !.block = WithoutLoc(@)]
        ELSE [nodes[k] EXCEPT !.loc = 0]]

\* C13: the statements of a script parsed without errors, formatted and
\* parsed again, come back without errors and equal in every field but loc
C13_RoundTrip ==
    first_ast # None =>
        /\ scan_pc = "done" => scan_result = Ok
        /\ group_pc = "done" => group_result = Ok
        /\ parse_pc = "done" =>
              /\ parse_errors = <<>>
              /\ WithoutLoc(parse_rv) = WithoutLoc(first_ast[1])

\* the top-level blocks whose statement fails, in the order of the script
FailingBlocks == SelectSeq(tree, Fails)

\* "On line L of F: " with the line number and the filename of block b
OnLineOf(b) == <<"On line ", ToString(b.line_number), " of ", b.filename, ": ">>

\* C14: every string of the error list parse_block returns reads
\* "On line L of F: MSG", L and F being the line number and the filename of
\* the block whose statement failed, whatever the kind of the statement
C14_ErrorsNameLineAndFile ==
    parse_pc = "done" =>
        /\ Len(parse_errors) = Len(FailingBlocks)
        /\ \A k \in 1..Len(parse_errors) :
              /\ Len(parse_errors[k]) > Len(OnLineOf(FailingBlocks[k]))
              /\ SubSeq(parse_errors[k], 1, 5) = OnLineOf(FailingBlocks[k])

\* the statements of the blocks of bs that parse, in the order of bs
NodesOf(bs) ==
    [k \in 1..Len(SelectSeq(bs, Succeeds)) |-> Alone(SelectSeq(bs, Succeeds)[k]).ast[1]]

\* the errors of the blocks of bs that fail, in the order of bs
ErrorsOf(bs) ==
    [k \in 1..Len(SelectSeq(bs, Fails)) |-> Alone(SelectSeq(bs, Fails)[k]).errors[1]]

\* while the loop runs, and when it is over, the two lists hold the outcome
\* of each block the cursor has been through, once and in order; a label's
\* body holds one statement for each of its sub-blocks
EachBlockOnce ==
    parse_pc \in {"loop", "done"} =>
        /\ lexer.line <= Len(tree)
        /\ parse_pc = "done" => lexer.line = Len(tree)
        /\ Len(parse_rv) + Len(parse_errors) = lexer.line
        /\ parse_rv = NodesOf(Processed)
        /\ parse_errors = ErrorsOf(Processed)
        /\ \A n \in AllNodes(parse_rv) :
              n.kind = "Label" => Len(n.block) = Len(BlockAt(n.loc).subblocks)

\* parse_statement moves the cursor by one block when it succeeds and leaves
\* it on the block when it fails
StatementAdvancesOnSuccess ==
    (parse_pc = "loop" /\ ~lexer.eob) =>
        parse_statement(lexer).l.line =
            IF parse_statement(lexer).ok THEN lexer.line + 1 ELSE lexer.line

\* every round of the loop leaves the cursor one block further
RoundAdvancesOnce ==
    (parse_pc = "loop" /\ parse_pc' = "loop") => lexer'.line = lexer.line + 1

\* what parse_block has left to do: the call of advance, a round for each
\* block the cursor has not been through, the return
StepsLeft ==
    CASE parse_pc = "start" -> Len(tree) + 2
      [] parse_pc = "loop" -> Len(tree) - lexer.line + 1
      [] OTHER -> 0

\* parse_block is at a place from which it goes on, or it has returned
GoesOn == parse_pc \in {"start", "loop", "done"} /\ StepsLeft \in Nat

\* C15: parse_block ends (every step leaves it with less to do, and it goes
\* on until it has returned), having handed each of the n blocks of the
\* cursor to parse_statement once and in order: a statement that succeeds
\* moves the cursor by one block, one that fails by none and parse_block
\* moves it, so len(ast) + len(errors) = n and both lists keep the order of
\* the script
C15_EachBlockOnceInOrder ==
    /\ [](EachBlockOnce /\ StatementAdvancesOnSuccess /\ GoesOn)
    /\ [][RoundAdvancesOnce /\ StepsLeft' < StepsLeft]_vars

\* three blocks, two of which parse, have been through the loop
C15_Witness ==
    /\ parse_pc = "done"
    /\ Len(tree) = 3
    /\ Len(parse_rv) = 2
    /\ Len(parse_errors) = 1

\* the cursor once the whitespace at its position is skipped
Skipped(l) == skip_whitespace(l)

\* the text of the line of l from position p up to position q
Between(l, p, q) == SubSeq(l.text, p + 1, q)

\* C16: match(pat) and the primitives built on it succeed only where the
\* pattern matches right at the position the whitespace skip leaves: no other
\* character is skipped, pos moves on by the length of the match, and
\* what match returns is the text between the two positions
C16_MatchIsAnchored ==
    [][/\ (lex_call'.op = "match" /\ lex_call'.rv # None) =>
             /\ lexer'.pos = Skipped(lexer).pos + Len(lex_call'.rv[1])
             /\ lex_call'.rv[1] = Between(lexer, Skipped(lexer).pos, lexer'.pos)
       /\ (lex_call'.op = "string" /\ lex_call'.rv # None) =>
             MatchEnd(StringRe(DQ),
                      Between(lexer, Skipped(lexer).pos, Len(lexer.text)), 0)
                 = lexer'.pos - Skipped(lexer).pos]_vars

\* no pattern of parse_statement's keywords matches at the start of block b
NoKeywordMatches(b) ==
    \A k \in 1..Len(StatementKeywords) :
        keyword(advance(LexerNew(<<b>>, FALSE)), LiteralRe(StatementKeywords[k])).rv = None

\* C17: a line on which no keyword matches and which is no say statement in
\* either form fails with the message "expected statement." and no other
C17_FallbackFailsWithExpectedStatement ==
    parse_pc = "done" =>
        \A k \in 1..Len(FailingBlocks) :
            (NoKeywordMatches(FailingBlocks[k]) /\ ~ParsesOnItsOwn(FailingBlocks[k])) =>
                parse_errors[k] = OnLineOf(FailingBlocks[k]) \o <<"expected statement.">>

\* the five fields of the cursor a checkpoint is about
LineFields(l) ==
    [filename |-> l.filename, line_number |-> l.line_number, text |-> l.text,
     subblock |-> l.subblock, pos |-> l.pos]

\* the calls that stay within the line
IntraLine ==
    {"match", "keyword", "name", "word", "string", "rest", "eol", "simple_expression"}

\* C18: checkpoint() takes the filename, line_number, text, subblocks and pos
\* of the cursor and changes nothing; the calls within a line leave the
\* state taken as it is and move nothing but pos; revert(s) gives the five
\* fields the values they had at the checkpoint and leaves the line index
\* and eob (which no call clears) as they were just before it
C18_RevertRestoresTheLine ==
    [][/\ lex_call'.op = "checkpoint" =>
             lex_state' = Some(LineFields(lexer)) /\ lexer' = lexer
       /\ lex_call'.op # "checkpoint" => lex_state' = lex_state
       /\ lex_call'.op \in IntraLine => [lexer' EXCEPT !.pos = lexer.pos] = lexer
       /\ lex_call'.op = "revert" =>
             /\ LineFields(lexer') = lex_state[1]
             /\ lexer'.line = lexer.line
             /\ lexer'.eob = lexer.eob
             /\ lexer'.block = lexer.block
       /\ lexer.eob => lexer'.eob]_vars

\* a revert has taken the cursor back from further along the line to where
\* the checkpoint was taken
C18_Witness ==
    /\ lex_call.op = "revert"
    /\ lex_call.from > lexer.pos
    /\ lexer.pos = lex_state[1].pos
    /\ lexer.text = tree[1].text

(* ------------- more claims about group_logical_lines, inject_node ------------- *)

\* the filename and line number of every block of a tree, parents before
\* their sub-blocks and those before what follows
RECURSIVE PreOrder(_)
PreOrder(bs) ==
    IF Len(bs) = 0 THEN <<>>
    ELSE <<<<bs[1].filename, bs[1].line_number>>>>
             \o PreOrder(bs[1].sub_blocks) \o PreOrder(Tail(bs))

\* what group_logical_lines has left to do: two steps for each line not yet
\* taken, a return for each call of gll_core that is open
GroupStepsLeft ==
    IF group_pc = "run" THEN 2 * (Len(lines) - gll_i) + Len(frames) ELSE 0

\* C19: when group_logical_lines succeeds, the blocks of the tree, in
\* pre-order, are the input lines, each once and in input order, each with
\* the filename and line number of its line; and the call ends: while it
\* runs a call of gll_core is open, and every step leaves less to do
C19_TreeListsTheLines ==
    /\ [](Grouped =>
             PreOrder(blocks) =
                 [k \in 1..Len(lines) |-> <<lines[k].filename, lines[k].line_number>>])
    /\ [](group_pc = "run" => Len(frames) >= 1 /\ gll_i <= Len(lines))
    /\ [][GroupStepsLeft' < GroupStepsLeft]_vars

\* four lines grouped into two top-level blocks
C19_Witness ==
    /\ Grouped
    /\ Len(lines) = 4
    /\ Len(blocks) = 2

\* the original nodes of ast below index k, and their number
Below(ast, k) == SelectSeq(ast, LAMBDA n : index(n) < k)

\* C20: for a list with strictly increasing top-level indices and a node of
\* index k, inject_node returns a list one longer, with strictly increasing
\* indices, holding the node with index k; the nodes that were below k stay
\* as and where they were, and every node at or above k comes one place
\* later with its index raised by exactly 1 and nothing else changed; so the
\* indices stay strictly increasing after any sequence of calls
C20_InjectKeepsIndicesIncreasing ==
    /\ [](inject_pc \in {"ready", "returned"} => StrictlyIncreasing(inject_ast))
    /\ [][inject_pc' = "returned" =>
            LET node == injected'[1]
                k == index(node)
                b == Len(Below(inject_ast, k))
            IN  /\ Len(inject_ast') = Len(inject_ast) + 1
                /\ StrictlyIncreasing(inject_ast')
                /\ inject_ast'[b + 1] = node
                /\ \A i \in 1..Len(inject_ast) :
                       IF index(inject_ast[i]) < k
                       THEN inject_ast'[i] = inject_ast[i]
                       ELSE inject_ast'[i + 1] =
                                set_index(inject_ast[i], index(inject_ast[i]) + 1)]_vars

\* a node was put between two others, at the index the later one had
C20_Witness ==
    /\ inject_pc = "returned"
    /\ Len(inject_ast) >= 3
    /\ injected[1] = inject_ast[2]
    /\ index(inject_ast[1]) < index(inject_ast[2])
    /\ index(inject_ast[3]) = index(inject_ast[2]) + 1
    /\ inject_ast[3].kind = "Label"

====
